---------------------------- MODULE Spec2Model ----------------------------
(***************************************************************************)
(* Model of the host-side NFP bus-access stack of rust_nfp_tools:          *)
(* expansion-BAR allocation and translation (expansion_bar.rs), the        *)
(* explicit-BAR issuer (explicit_bar.rs), the CPP bus (cpp_bus.rs), the    *)
(* XPB bus (xpb_bus.rs) and the memory-access layer (mem_access.rs).       *)
(*                                                                         *)
(* Machine words.  The code computes on u32 and u64 values with bit 31     *)
(* and bits up to 63 in use.  A word is modelled as the set of the         *)
(* positions of its 1 bits, so that {} is 0, {0} is 1 and {31} is          *)
(* 0x8000_0000.  Bitwise operators are set operations, shifts move the     *)
(* positions, and addition and subtraction are 64-bit sums with carries.   *)
(***************************************************************************)
EXTENDS Integers, Sequences, FiniteSets, TLC

\* u64 has 64 bits, u32 has 32.
U64 == 0..63
U32 == 0..31

Max(S) == CHOOSE x \in S : \A y \in S : y <= x
Min(S) == CHOOSE x \in S : \A y \in S : x <= y

\* The word of a small non-negative integer literal (n < 2^31).
RECURSIVE BitsFrom(_, _)
BitsFrom(n, i) ==
    IF n = 0 THEN {}
    ELSE (IF n % 2 = 1 THEN {i} ELSE {}) \cup BitsFrom(n \div 2, i + 1)
Bits(n) == BitsFrom(n, 0)

\* a & b, a | b on words.
BitAnd(a, b) == a \cap b
BitOr(a, b) == a \cup b

\* a << n and a >> n on u64.
Shl(a, n) == {i + n : i \in a} \cap U64
Shr(a, n) == {i - n : i \in {j \in a : j >= n}}

\* `x as u32`: truncation to the low 32 bits.
AsU32(a) == a \cap U32

\* u64::leading_zeros.
leading_zeros(a) == IF a = {} THEN 64 ELSE 63 - Max(a)

\* u32::leading_zeros.
leading_zeros32(a) == IF a = {} THEN 32 ELSE 31 - Max(a)

\* a + b on u64 (wrapping).  Bit i of the sum is a_i xor b_i xor c_i, where
\* the carry c_i is 1 when some lower position j generates a carry (a_j and
\* b_j) that every position between j and i propagates (a_k or b_k).
Add(a, b) ==
    LET g == a \cap b
        p == a \cup b
        c(i) == \E j \in g : j < i /\ \A k \in (j + 1)..(i - 1) : k \in p
    IN  {i \in U64 : ((i \in a) # (i \in b)) # c(i)}

\* a - b on u64 (wrapping).  Bit i of the difference is a_i xor b_i xor w_i,
\* where the borrow w_i is 1 when some lower position j generates a borrow
\* (b_j and not a_j) that every position between propagates (b_k or not a_k).
Sub(a, b) ==
    LET g == b \ a
        w(i) == \E j \in g : j < i /\ \A k \in (j + 1)..(i - 1) : k \in b \/ k \notin a
    IN  {i \in U64 : ((i \in a) # (i \in b)) # w(i)}

\* u64::wrapping_neg: two's complement negation, 0 - a.
wrapping_neg(a) == Sub({}, a)

\* a < b and a > b on unsigned words.
Less(a, b) == \E i \in b \ a : \A j \in a \ b : j < i
Greater(a, b) == Less(b, a)


(***************************************************************************)
(* Program constants.                                                      *)
(***************************************************************************)
CPP_EXPANSION_BAR_PHYSICAL_BAR == 2
CPP_MAX_NUM_EXPANSION_BARS == 8
NUM_EXPL_BARS == 4
PCIE_INT_SRAM_BASE == 262144
SRAM_DATA_BASE_OFFSET == 57344
SRAM_DATA_EXPL_BAR_OFFSET == 128

\* enum MapType, with its discriminant (`self.exp_bar_map as u32`).
MapType == {"Fixed", "Bulk", "Target", "General", "Explicit"}
MapTypeId(m) ==
    CASE m = "Fixed" -> 0 [] m = "Bulk" -> 1 [] m = "Target" -> 2
      [] m = "General" -> 3 [] m = "Explicit" -> 4

\* CppIsland::id for the islands the model uses.
CppIslandId(i) ==
    CASE i = "Local" -> 0 [] i = "ChipExec" -> 1 [] i = "Pcie0" -> 2
      [] i = "Emu0" -> 8 [] i = "Rfpc0" -> 9 [] i = "Rfpc6" -> 15

\* CppTarget::id.
CppTargetId(t) ==
    CASE t = "Nbi" -> 1 [] t = "Mem" -> 7 [] t = "Pcie" -> 9
      [] t = "Arm" -> 10 [] t = "Ct" -> 14 [] t = "Cls" -> 15

\* CppLength::id.
CppLengthId(l) == CASE l = "Len32" -> 0 [] l = "Len64" -> 1 [] l = "NoLen" -> 3

(***************************************************************************)
(* ExpansionBar::expansion_bar_cfg.                                        *)
(***************************************************************************)
\* The base-address width of a map type (the `match` of lines 232-238).
base_addr_width(m) ==
    CASE m = "Fixed" -> 32 [] m = "Bulk" -> 38 [] m = "Target" -> 40
      [] m = "General" -> 44 [] OTHER -> 32

\* (v & mask) << shift, as a u32 field of a config word.
Field(v, mask, shift) == AsU32(Shl(BitAnd(v, Bits(mask)), shift))

\* The outcome of the two checks of lines 227-251 on base_addr under map type
\* m.  bit_length - 1 is a u32 subtraction: with bit_length = 0 (base_addr =
\* 0) it panics in a build with overflow checks and wraps to 0xFFFF_FFFF in a
\* build without them; overflow_checks says which build runs.
addr_check(m, base_addr, overflow_checks) ==
    LET lowest_bit == BitAnd(base_addr, wrapping_neg(base_addr))
        bit_length == 64 - leading_zeros(lowest_bit)
        minus_one  == AsU32(Sub(Bits(bit_length), {0}))
    IN  IF 64 - leading_zeros(base_addr) > 48 THEN "too_long"
        ELSE IF bit_length = 0 /\ overflow_checks THEN "overflow"
        ELSE IF Less(minus_one, Bits(48 - base_addr_width(m))) THEN "truncated"
        ELSE "ok"

\* A changed cfg_words whose word 1 is bits 31:0 of the base address under
\* every map type.
cfg_words_low_base(m, tgt_island_id, target, action, token, base_addr, cpp_len) ==
    LET enable == {31} \cup Field(Bits(MapTypeId(m)), 7, 20)
    IN  IF m = "Explicit" THEN <<enable, {}>>
        ELSE
        LET len_f  == Field(Bits(cpp_len), 3, 16)
            isl_f  == Field(Bits(tgt_island_id), 127, 24)
            idx1   == IF m = "General" THEN 48 - 4 ELSE 48
            tgt_f  == IF m = "General"
                      THEN Field(Shr(base_addr, 48 - 4), 15, 12)
                      ELSE Field(Bits(target), 15, 12)
            tok_f  == IF m \in {"Fixed", "Bulk"}
                      THEN Field(Bits(token), 3, 8)
                      ELSE Field(Shr(base_addr, idx1 - 2), 3, 8)
            idx2   == IF m \in {"Fixed", "Bulk"} THEN idx1 ELSE idx1 - 2
            act_f  == IF m = "Fixed"
                      THEN Field(Bits(action), 63, 0)
                      ELSE Field(Shr(base_addr, idx2 - 6), 63, 0)
        IN  <<enable \cup len_f \cup isl_f \cup tgt_f \cup tok_f \cup act_f,
              AsU32(base_addr)>>

\* The two config words of lines 212-295 for a non-rejected request.
cfg_words(m, tgt_island_id, target, action, token, base_addr, cpp_len) ==
    LET enable == {31} \cup Field(Bits(MapTypeId(m)), 7, 20)
    IN  IF m = "Explicit" THEN <<enable, {}>>
        ELSE
        LET len_f  == Field(Bits(cpp_len), 3, 16)
            isl_f  == Field(Bits(tgt_island_id), 127, 24)
            idx1   == IF m = "General" THEN 48 - 4 ELSE 48
            tgt_f  == IF m = "General"
                      THEN Field(Shr(base_addr, 48 - 4), 15, 12)
                      ELSE Field(Bits(target), 15, 12)
            idx2   == IF m \in {"Fixed", "Bulk"} THEN idx1 ELSE idx1 - 2
            tok_f  == IF m \in {"Fixed", "Bulk"}
                      THEN Field(Bits(token), 3, 8)
                      ELSE Field(Shr(base_addr, idx1 - 2), 3, 8)
            idx3   == IF m = "Fixed" THEN idx2 ELSE idx2 - 6
            act_f  == IF m = "Fixed"
                      THEN Field(Bits(action), 63, 0)
                      ELSE Field(Shr(base_addr, idx2 - 6), 63, 0)
            cfg1   == AsU32(Shr(base_addr, idx3 - 32))
        IN  <<enable \cup len_f \cup isl_f \cup tgt_f \cup tok_f \cup act_f, cfg1>>

\* A changed expansion_bar_cfg that writes a changed pair without storing it
\* in the cache.
expansion_bar_cfg_stale_cache(bar, tgt_island_id, target, action, token, base_addr, cpp_len, overflow_checks) ==
    LET m      == bar.exp_bar_map
        check  == IF m = "Explicit" THEN "ok" ELSE addr_check(m, base_addr, overflow_checks)
        words  == cfg_words(m, tgt_island_id, target, action, token, base_addr, cpp_len)
    IN  IF check # "ok" THEN [bar |-> bar, writes |-> <<>>, status |-> check]
        ELSE IF words # bar.exp_bar_cached_cfg
        THEN [bar |-> bar, writes |-> <<words>>, status |-> "ok"]
        ELSE [bar |-> bar, writes |-> <<>>, status |-> "ok"]

\* expansion_bar_cfg on aperture record bar: the aperture after the call, the
\* config-space writes it made (a sequence of at most one word pair) and how
\* it ended ("ok", or the panic).
expansion_bar_cfg(bar, tgt_island_id, target, action, token, base_addr, cpp_len, overflow_checks) ==
    LET m      == bar.exp_bar_map
        check  == IF m = "Explicit" THEN "ok" ELSE addr_check(m, base_addr, overflow_checks)
        words  == cfg_words(m, tgt_island_id, target, action, token, base_addr, cpp_len)
    IN  IF check # "ok" THEN [bar |-> bar, writes |-> <<>>, status |-> check]
        ELSE IF words # bar.exp_bar_cached_cfg
        THEN [bar |-> [bar EXCEPT !.exp_bar_cached_cfg = words],
              writes |-> <<words>>, status |-> "ok"]
        ELSE [bar |-> bar, writes |-> <<>>, status |-> "ok"]

(***************************************************************************)
(* common::split_addr48 and CppBus::configure_exp_bar.                     *)
(***************************************************************************)
\* split_addr48(address, aperture): <<base_address, offset>>.
split_addr48(address, aperture) ==
    LET ap   == Shl({0}, 64 - leading_zeros(aperture) - 1)
        base == BitAnd(address, Sub(0..47, Sub(ap, {0})))
    IN  <<base, Sub(address, base)>>

\* floor(log2(exp_bar_size)) of line 186.
log2_bar_size(size) == Max(size)

\* A changed configure_exp_bar whose mask is one bit too wide.
cpp_base_addr_wide_mask(size, address) ==
    BitAnd(address, Sub({48}, Shl({0}, log2_bar_size(size) + 1)))

\* The base address configure_exp_bar stores in exp_bar_base_addr (line 188).
cpp_base_addr(size, address) ==
    BitAnd(address, Sub({48}, Shl({0}, log2_bar_size(size))))

\* The integer of a word below 2^31.
RECURSIVE Val(_)
Val(a) == IF a = {} THEN 0 ELSE LET i == Max(a) IN (2 ^ i) + Val(a \ {i})

\* A freshly constructed ExpansionBar (lines 122-134) on sub-aperture
\* <<phys_bar, exp_bar>> of a physical BAR whose eighth is exp_bar_size.
NewExpansionBar(phys_bar, exp_bar, exp_bar_size) ==
    [phys_bar |-> phys_bar, exp_bar |-> exp_bar, exp_bar_map |-> "Fixed",
     exp_bar_cached_cfg |-> <<{}, {}>>, exp_bar_base_addr |-> {},
     exp_bar_size |-> exp_bar_size]

\* A config-space write event of exp_bar_config_write (lines 176-201).
CfgWrite(bar, words) ==
    [ev |-> "cfg_write", bar |-> <<bar.phys_bar, bar.exp_bar>>, words |-> words]

\* The events of the writes expansion_bar_cfg result r made.
CfgWrites(r) == [i \in 1..Len(r.writes) |-> CfgWrite(r.bar, r.writes[i])]

Panic(why) == [ev |-> "panic", why |-> why]

\* ExpansionBar::read / ExpansionBar::write of bytes at offset: the mmap
\* access event, or the panic of the bounds check (lines 308, 321).  The
\* event records the translation in force: the aperture's map type and
\* programmed base address, and hw, the content of its two BAR-config CSRs.
mmap_access(bar, hw, op, offset, bytes) ==
    IF Greater(Add(offset, Bits(bytes)), bar.exp_bar_size)
    THEN Panic("exceeds_mapped_region")
    ELSE [ev |-> "mmap", op |-> op, bar |-> <<bar.phys_bar, bar.exp_bar>>,
          offset |-> offset, bytes |-> bytes, map |-> bar.exp_bar_map,
          cfg |-> hw, base |-> bar.exp_bar_base_addr]

\* CppBus::read / CppBus::write (lines 200-230) with configure_exp_bar
\* (lines 177-198): the aperture afterwards and the events in program order.
\* hw is the content of the aperture's BAR-config CSRs before the call.
cpp_access(bar, hw, op, island, target, action, token, cpp_len, address, length_words, overflow_checks) ==
    LET base   == cpp_base_addr(bar.exp_bar_size, address)
        bar1   == [bar EXCEPT !.exp_bar_base_addr = base]
        r      == expansion_bar_cfg(bar1, CppIslandId(island), CppTargetId(target),
                                    action, token, base, CppLengthId(cpp_len),
                                    overflow_checks)
        offset == Sub(address, base)
        hw1    == IF r.writes # <<>> THEN r.writes[1] ELSE hw
    IN  IF r.status # "ok"
        THEN [bar |-> r.bar, trace |-> <<Panic(r.status)>>]
        ELSE [bar |-> r.bar,
              trace |-> CfgWrites(r) \o <<mmap_access(r.bar, hw1, op, offset, length_words * 4)>>]

(***************************************************************************)
(* xpb_bus.rs: the CPP-backed XPB operations.                              *)
(***************************************************************************)
\* The XPB address and target island xpb_read composes (lines 20-26).
xpb_read_addr(island, address, xpbm) ==
    LET a0 == BitAnd(address, Bits(16777215))
        a1 == BitOr(a0, Field(Bits(CppIslandId(island)), 127, 24))
    IN  IF xpbm THEN [addr |-> BitOr(a1, {31}), island |-> "ChipExec"]
        ELSE [addr |-> a1, island |-> island]

\* The XPB address and target island xpb_write composes (lines 56-63); the
\* explicit variants compose the same (lines 90-97 and 130-137).
xpb_write_addr(island, address, xpbm) ==
    LET a0 == BitAnd(address, Bits(16777215))
    IN  IF xpbm THEN [addr |-> BitOr(a0, {31}), island |-> "ChipExec"]
        ELSE [addr |-> BitOr(a0, Field(Bits(CppIslandId(island)), 127, 24)),
              island |-> island]

\* xpb_read (lines 8-42).
xpb_read(bar, hw, island, address, length, xpbm, overflow_checks) ==
    LET x == xpb_read_addr(island, address, xpbm)
    IN  cpp_access([bar EXCEPT !.exp_bar_map = "Bulk"], hw, "read", x.island, "Ct",
                   0, 0, "Len32", x.addr, length, overflow_checks)

\* xpb_write (lines 44-77).
xpb_write(bar, hw, island, address, length, xpbm, overflow_checks) ==
    LET x == xpb_write_addr(island, address, xpbm)
    IN  cpp_access([bar EXCEPT !.exp_bar_map = "Bulk"], hw, "write", x.island, "Ct",
                   0, 0, "Len32", x.addr, length, overflow_checks)

(***************************************************************************)
(* mem_access.rs.                                                          *)
(***************************************************************************)
\* MuMemoryEngine::read_command, write_command and cpp_length.
read_command(e) ==
    CASE e = "Atomic32" -> <<34, 0>> [] e = "Bulk32" -> <<28, 0>> [] e = "Bulk64" -> <<0, 0>>
write_command(e) ==
    CASE e = "Atomic32" -> <<4, 0>> [] e = "Bulk32" -> <<31, 0>> [] e = "Bulk64" -> <<1, 0>>
cpp_length(e) ==
    CASE e = "Atomic32" -> "Len32" [] e = "Bulk32" -> "Len32" [] e = "Bulk64" -> "Len64"

\* A changed mem_read and mem_write that select the Bulk map type.
mem_map_type_bulk == "Bulk"

\* The map type mem_read and mem_write select (lines 92-94 and 133-135).
mem_map_type == "Fixed"

\* mem_read (lines 83-122).
mem_read(bar, hw, island, mem_type, engine, address, length, overflow_checks) ==
    LET b == [bar EXCEPT !.exp_bar_map = mem_map_type]
    IN  IF mem_type \in {"Emem", "Ctm"}
        THEN cpp_access(b, hw, "read", island, "Mem", read_command(engine)[1],
                        read_command(engine)[2], cpp_length(engine), address,
                        length, overflow_checks)
        ELSE cpp_access(b, hw, "read", island, "Cls", 0, 0, "Len32", address, length,
                        overflow_checks)

\* mem_write (lines 124-163).
mem_write(bar, hw, island, mem_type, engine, address, length, overflow_checks) ==
    LET b == [bar EXCEPT !.exp_bar_map = mem_map_type]
    IN  IF mem_type \in {"Emem", "Ctm"}
        THEN cpp_access(b, hw, "write", island, "Mem", write_command(engine)[1],
                        write_command(engine)[2], cpp_length(engine), address,
                        length, overflow_checks)
        ELSE cpp_access(b, hw, "write", island, "Cls", 1, 0, "Len32", address, length,
                        overflow_checks)

(***************************************************************************)
(* explicit_bar.rs.  An Option is the empty sequence (None) or the         *)
(* one-element sequence of its value (Some).                               *)
(***************************************************************************)
None == <<>>
Some(v) == <<v>>
is_some(o) == o # None
unwrap_or(o, d) == IF o = None THEN d ELSE o[1]

\* ExplicitBar::size and ExplicitBar::expa_bar_offset (lines 59-65).
expl_size(expl) ==
    Bits(Val(AsU32(expl.trigger_exp_bar.exp_bar_size)) \div NUM_EXPL_BARS)
expa_bar_offset(expl) ==
    Bits((Val(AsU32(expl.trigger_exp_bar.exp_bar_size)) \div NUM_EXPL_BARS)
         * expl.expl_bar_index)

\* ExplicitBar::sram_data_offset (lines 71-75).
sram_data_offset(expl) ==
    Bits(PCIE_INT_SRAM_BASE + SRAM_DATA_BASE_OFFSET
         + (expl.expl_bar_index * SRAM_DATA_EXPL_BAR_OFFSET))

\* The truncation test of explicit_bar_cfg (lines 137-139): TRUE when it
\* panics.  saturating_sub(1) of the leading-zero count of the lowest set bit.
expl_addr_rejected(base_addr) ==
    LET lz == leading_zeros(BitAnd(base_addr, wrapping_neg(base_addr)))
        v  == IF lz = 0 THEN 0 ELSE lz - 1
    IN  v \in 0..15

\* The four command-config words of explicit_bar_cfg (lines 147-165).
expl_cfg_words(tgt_island_id, target, action, token, base_addr, sig_type, length, byte_mask, master_island, data_master, data_ref, signal_master, signal_ref) ==
    << Field(Bits(unwrap_or(sig_type, 0)), 3, 28) \cup Field(Bits(action), 63, 20)
         \cup Field(Bits(token), 3, 16) \cup Field(Bits(length), 31, 8)
         \cup Field(Bits(byte_mask), 255, 0),
       Field(Bits(target), 15, 28) \cup Field(Bits(unwrap_or(master_island, 0)), 127, 21)
         \cup Field(Bits(unwrap_or(data_master, 0)), 31, 16)
         \cup Field(Bits(unwrap_or(data_ref, 0)), 65535, 0),
       {31} \cup Field(Bits(tgt_island_id), 127, 16)
         \cup Field(Bits(unwrap_or(signal_ref, 0)), 127, 8)
         \cup Field(Bits(unwrap_or(signal_master, 0)), 31, 0),
       AsU32(Shr(base_addr, 16)) >>

\* explicit_bar_cfg (lines 107-168): the events it produces, a write of the
\* four CSRs of the explicit-BAR index or the panic.
explicit_bar_cfg(expl, tgt_island_id, target, action, token, base_addr, sig_type, length, byte_mask, master_island, data_master, data_ref, signal_master, signal_ref) ==
    IF is_some(sig_type)
       /\ (is_some(master_island) \/ is_some(data_master) \/ is_some(data_ref)
           \/ is_some(signal_master) \/ is_some(signal_ref))
    THEN <<Panic("sig_type")>>
    ELSE IF expl_addr_rejected(base_addr)
    THEN <<Panic("truncated")>>
    ELSE << [ev |-> "expl_cfg_write", index |-> expl.expl_bar_index,
             base_addr |-> base_addr,
             words |-> expl_cfg_words(tgt_island_id, target, action, token,
                                      base_addr, sig_type, length, byte_mask,
                                      master_island, data_master, data_ref,
                                      signal_master, signal_ref)] >>

\* ExplicitBar::trigger (lines 170-177): a read of the trigger aperture; csr is
\* the content of the index's four command-config CSRs at that moment, hw the
\* content of the BAR-config CSRs of the apertures, at the mmap offset of the
\* read.
trigger(expl, hw, csr, offset, length_words) ==
    LET a == mmap_access(expl.trigger_exp_bar, hw.trigger, "read",
                         Add(expa_bar_offset(expl), offset), length_words * 4)
    IN  IF a.ev = "panic" THEN a
        ELSE [ev |-> "trigger", index |-> expl.expl_bar_index, csr |-> csr,
              offset |-> offset, at |-> a.offset, bytes |-> a.bytes, bar |-> a.bar]

\* The largest number of words write_data and read_data accept (lines 180,
\* 190).
sram_slot_words == SRAM_DATA_EXPL_BAR_OFFSET \div 4

\* ExplicitBar::write_data and read_data (lines 179-199).
sram_access(expl, hw, op, length_words) ==
    IF length_words > sram_slot_words THEN Panic("exceeds_sram")
    ELSE mmap_access(expl.data_exp_bar, hw.data, op, sram_data_offset(expl), length_words * 4)

\* The prefix of an event sequence up to its first panic: a panic ends the
\* call.
RECURSIVE UntilPanic(_)
UntilPanic(t) ==
    IF t = <<>> THEN <<>>
    ELSE IF Head(t).ev = "panic" THEN <<Head(t)>>
    ELSE <<Head(t)>> \o UntilPanic(Tail(t))

\* A changed run_explicit_cmd that triggers before it stages the pull data.
run_explicit_cmd_trigger_first(expl, hw, csr, offset, pull_data, push_data_len, require_push_data_from_sram) ==
    LET pull     == IF is_some(pull_data)
                    THEN <<sram_access(expl, hw, "write", pull_data[1])>> ELSE <<>>
        use_sram == require_push_data_from_sram
                    \/ (IF is_some(push_data_len)
                        THEN push_data_len[1] \notin {1, 4, 8} ELSE TRUE)
        trig     == IF use_sram THEN <<trigger(expl, hw, csr, offset, 1)>>
                    ELSE <<trigger(expl, hw, csr, offset, push_data_len[1])>>
        back     == IF use_sram /\ is_some(push_data_len)
                    THEN <<sram_access(expl, hw, "read", push_data_len[1])>> ELSE <<>>
    IN  UntilPanic(trig \o pull \o back)

\* run_explicit_cmd (lines 201-236): its events in program order.  pull_data
\* is None or Some number of words to stage, push_data_len None or Some
\* number of words.
run_explicit_cmd(expl, hw, csr, offset, pull_data, push_data_len, require_push_data_from_sram) ==
    LET pull     == IF is_some(pull_data)
                    THEN <<sram_access(expl, hw, "write", pull_data[1])>> ELSE <<>>
        use_sram == require_push_data_from_sram
                    \/ (IF is_some(push_data_len)
                        THEN push_data_len[1] \notin {1, 4, 8} ELSE TRUE)
        rest     == IF use_sram
                    THEN <<trigger(expl, hw, csr, offset, 1)>>
                         \o (IF is_some(push_data_len)
                             THEN <<sram_access(expl, hw, "read", push_data_len[1])>>
                             ELSE <<>>)
                    ELSE IF is_some(push_data_len)
                         THEN <<trigger(expl, hw, csr, offset, push_data_len[1])>>
                         ELSE <<>>
    IN  UntilPanic(pull \o rest)

\* The CSR words in force after the events of t, starting from csr.
RECURSIVE CsrAfter(_, _)
CsrAfter(csr, t) ==
    IF t = <<>> THEN csr
    ELSE CsrAfter(IF Head(t).ev = "expl_cfg_write" THEN Head(t).words ELSE csr, Tail(t))

\* The body shared by xpb_explicit_write32 (lines 79-118) and
\* xpb_explicit_read32 (lines 120-162), which differ in the action and in the
\* data direction.
xpb_explicit(expl, hw, csr, island, address, xpbm, action, pull_data, push_data_len) ==
    IF leading_zeros32(address) < 8 THEN <<Panic("wider_than_24_bits")>>
    ELSE
    LET x   == xpb_write_addr(island, address, xpbm)
        sp  == split_addr48(x.addr, expl_size(expl))
        cfg == explicit_bar_cfg(expl, CppIslandId(x.island), CppTargetId("Ct"),
                                action, 0, sp[1], Some(1), 0, 255,
                                None, None, None, None, None)
    IN  IF cfg[1].ev = "panic" THEN cfg
        ELSE cfg \o run_explicit_cmd(expl, hw, CsrAfter(csr, cfg), sp[2],
                                     pull_data, push_data_len, FALSE)

\* xpb_explicit_write32 and xpb_explicit_read32.
xpb_explicit_write32(expl, hw, csr, island, address, write_words, xpbm) ==
    xpb_explicit(expl, hw, csr, island, address, xpbm, 1, Some(write_words), None)
xpb_explicit_read32(expl, hw, csr, island, address, xpbm) ==
    xpb_explicit(expl, hw, csr, island, address, xpbm, 0, None, Some(1))

\* ExplicitBar::new (lines 33-57) on trigger aperture <<2, t>> and data
\* aperture <<2, d>>: the ExplicitBar and the config-space writes of the two
\* expansion_bar_cfg calls.
explicit_bar_new(expl_bar_index, t, d, exp_bar_size, overflow_checks) ==
    LET tr == expansion_bar_cfg(
                  [NewExpansionBar(CPP_EXPANSION_BAR_PHYSICAL_BAR, t, exp_bar_size)
                       EXCEPT !.exp_bar_map = "Explicit"],
                  0, 0, 0, 0, {}, 0, overflow_checks)
        da == expansion_bar_cfg(
                  [NewExpansionBar(CPP_EXPANSION_BAR_PHYSICAL_BAR, d, exp_bar_size)
                       EXCEPT !.exp_bar_map = "General"],
                  CppIslandId("Local"), 0, 0, 0,
                  Bits(PCIE_INT_SRAM_BASE + SRAM_DATA_BASE_OFFSET),
                  CppLengthId("Len32"), overflow_checks)
    IN  [expl  |-> [expl_bar_index |-> expl_bar_index,
                    trigger_exp_bar |-> tr.bar, data_exp_bar |-> da.bar],
         trace |-> CfgWrites(tr) \o CfgWrites(da)]

(***************************************************************************)
(* State.  The first group is one tool process that has constructed an     *)
(* ExpansionBar and an ExplicitBar, with the device CSRs it programs.  The *)
(* second group is the host: the kernel's table of exclusive locks on the  *)
(* lock files of a device, the ExpansionBar instances of several           *)
(* processes, and the processes that issue explicit commands.              *)
(***************************************************************************)
VARIABLES
    exp_bar,          \* the ExpansionBar the CPP-backed operations use
    expl_bar,         \* the ExplicitBar
    hw,               \* content of the BAR-config CSRs of the three apertures
    expl_csr,         \* content of the four command-config CSRs of the index
    overflow_checks,  \* whether the build panics on integer overflow
    call,             \* the operation called last, with its arguments
    trace,            \* the events of that call, in program order
    flock,            \* lock file -> holder of its exclusive lock (0: none)
    bars,             \* ExpansionBar instance -> its state
    drops,            \* number of ExpansionBar drops so far, counted up to 2
    procs,            \* process -> its ExplicitBar and the command it runs
    expl_hw,          \* explicit-BAR index -> who wrote its CSRs and SRAM slot
    dbg,              \* the debugger call in progress: its position and clock
    dm,               \* the RFPC hart and its debug module
    pa,               \* the PerformanceAnalyzer and its peripheral
    vt,               \* the lock, metadata and length words of the virtual terminal
    rsp               \* the RspServer, its listener and the stream of its client

dev_vars == <<dbg, dm, pa, vt, rsp>>
cfg_vars == <<exp_bar, expl_bar, hw, expl_csr, overflow_checks, call, trace, dev_vars>>
host_vars == <<flock, bars, drops, procs, expl_hw>>
vars == <<exp_bar, expl_bar, hw, expl_csr, overflow_checks, call, trace,
          flock, bars, drops, procs, expl_hw, dbg, dm, pa, vt, rsp>>

\* The operations on the apertures and the host use no debug module.
NoDev ==
    /\ dbg = None
    /\ dm = None
    /\ pa = None
    /\ vt = None
    /\ rsp = None

(***************************************************************************)
(* Lock files and the allocation of expansion BARs (expansion_bar.rs,      *)
(* lines 77-174 and 333-340).  try_lock_exclusive is flock(LOCK_EX |       *)
(* LOCK_NB): the lock belongs to the open file of the ExpansionBar that    *)
(* took it, so a second open of the same lock file fails to lock it in     *)
(* another process and in the same process alike.  File-system errors      *)
(* other than a held lock are not modelled.                                *)
(***************************************************************************)
\* --- bounds of the host ---
\* ExpansionBar instances that exist at a time, and processes.
MaxBars == 2
NumProcs == 2

Instances == 1..MaxBars
Procs == 1..NumProcs

\* The sub-apertures allocate_exp_bar scans (line 153).
ExpBars == 0..(CPP_MAX_NUM_EXPANSION_BARS - 1)

\* The lock files of a device, one per <<phys_bar, exp_bar>> (lines 79-81
\* and 154-155): those of physical BAR 2, and that of sub-aperture 1.0, which
\* only an explicit bar_mapping reaches.
LockFiles == {<<CPP_EXPANSION_BAR_PHYSICAL_BAR, i>> : i \in ExpBars} \cup {<<1, 0>>}

\* Holders of a lock: an ExpansionBar instance (a positive number), nobody
\* (Unlocked), or a tool process that is not an instance of the model
\* (Outside).
Unlocked == 0
Outside == 0 - 1

\* A changed acquire_lock_file that does not look at the lock: it takes the
\* lock file whether or not another open file holds its lock.
acquire_lock_file_unlocked(locks, lock_path, h) ==
    [ok |-> TRUE, locks |-> [locks EXCEPT ![lock_path] = h]]

\* acquire_lock_file (lines 137-145) by holder h on the lock table locks:
\* whether the lock was taken, and the table afterwards.
acquire_lock_file(locks, lock_path, h) ==
    IF locks[lock_path] = Unlocked
    THEN [ok |-> TRUE, locks |-> [locks EXCEPT ![lock_path] = h]]
    ELSE [ok |-> FALSE, locks |-> locks]

\* A changed Drop that leaves the lock file locked.
unlock_skipped(locks, lock_path) == locks

\* self.lock_file.unlock() of Drop (line 336).
unlock(locks, lock_path) == [locks EXCEPT ![lock_path] = Unlocked]

\* The vector bar_locks of allocate_exp_bar (lines 152-162), in scan order.
bar_locks ==
    [i \in 1..CPP_MAX_NUM_EXPANSION_BARS |-> <<CPP_EXPANSION_BAR_PHYSICAL_BAR, i - 1>>]

\* The sub-apertures of BAR 2 whose lock nobody holds.
FreeExpBars(locks) ==
    {i \in ExpBars : locks[<<CPP_EXPANSION_BAR_PHYSICAL_BAR, i>>] = Unlocked}

\* allocate_exp_bar (lines 147-174) run without interruption from position
\* pos of bar_locks by holder h: the first lock that can be taken, or the
\* panic "No expansion BARs available!".
RECURSIVE allocate_exp_bar(_, _, _)
allocate_exp_bar(locks, h, pos) ==
    IF pos > Len(bar_locks)
    THEN [ok |-> FALSE, locks |-> locks, bar |-> <<0, 0>>]
    ELSE LET r == acquire_lock_file(locks, bar_locks[pos], h)
         IN  IF r.ok THEN [ok |-> TRUE, locks |-> r.locks, bar |-> bar_locks[pos]]
             ELSE allocate_exp_bar(locks, h, pos + 1)

\* An ExpansionBar instance of the host: not constructed ("none"), in the
\* scan of allocate_exp_bar about to try bar_locks[pos] ("scanning"), live on
\* sub-aperture bar, or ended by the panic of new ("failed").  The other
\* fields record the history the properties speak of: tried is the sequence of
\* <<lock file, whether it was found held>> of the tries made, quiet whether
\* no other instance took or released a lock since the scan began, born the
\* value of drops when new was called, and free_at_end the sub-apertures of
\* BAR 2 that were free at the moment the scan ended.
NoBar == [state |-> "none", proc |-> 0, mapping |-> None, bar |-> <<0, 0>>,
          pos |-> 0, tried |-> <<>>, quiet |-> TRUE, born |-> 0,
          free_at_end |-> {}]

\* A process of the host that issues explicit commands: its ExplicitBar, the
\* steps of the command it is running and how many of them are done, and,
\* of its last command, the process whose command words its trigger executed
\* (ran) and whose staged data its read-back found in the slot (got).
NoProc == [state |-> "none", expl |-> None, steps |-> <<>>, done |-> 0,
           ran |-> 0, got |-> 0]

\* No process has touched the CSRs or the SRAM slot of an explicit-BAR index.
NoExplHw == [i \in 0..(NUM_EXPL_BARS - 1) |-> [csr |-> 0, sram |-> 0]]

\* The host around the single process of the first group: its three
\* ExpansionBars hold the locks of 2.0, 2.1 and 2.2.
HostOfOneProcess ==
    /\ flock = [l \in LockFiles |->
                   IF l[1] = CPP_EXPANSION_BAR_PHYSICAL_BAR /\ l[2] < 3
                   THEN Outside ELSE Unlocked]
    /\ bars = [h \in Instances |-> NoBar]
    /\ drops = 0
    /\ procs = [p \in Procs |-> NoProc]
    /\ expl_hw = NoExplHw

\* --- bounds of the inputs ---
\* Read and write lengths in words are 1 or MaxWords.
MaxWords == 2
Lengths == {1, MaxWords}

Islands == {"Pcie0", "Rfpc0"}
Engines == {"Atomic32", "Bulk32", "Bulk64"}
MemTypes == {"Emem", "Ctm", "Cls"}
\* XPB input addresses: 0x00B00040, 0x00FFFFFF, 0x01000000, 0x80000000.
XpbAddrs == {Bits(11534400), Bits(16777215), {24}, {31}}
\* CPP addresses: 0, 2^20 + 8, 0x12345678, 2^47, 2^48.
CppAddrs == {{}, {20, 3}, Bits(305419896), {47}, {48}}
\* Memory addresses: 0, 2^20 + 8, 0x12345678.
MemAddrs == {{}, {20, 3}, Bits(305419896)}
\* Base addresses handed to expansion_bar_cfg directly.
CfgBases == {{}, {3}, {4}, {7}, {8}, {9}, {10}, {15}, {16}, {47}, {48}, {63},
             {16, 3}, {47, 20}, {48, 16}}
\* Base addresses handed to explicit_bar_cfg directly.
ExplBases == {{}, {0}, {15}, {16}, {31}, {46}, {47}, {63}, {16, 5}, {47, 16}}

\* A process starts with the apertures 2.0 (ExpansionBar::new), 2.1 and 2.2
\* (ExplicitBar::new(index)) of an otherwise unused device whose sub-apertures
\* have the given size (a power of two: an eighth of a PCI BAR), in a build
\* with or without overflow checks.
CfgInitOf(size, oc, index) ==
    LET n == explicit_bar_new(index, 1, 2, size, oc)
    IN  /\ exp_bar = NewExpansionBar(CPP_EXPANSION_BAR_PHYSICAL_BAR, 0, size)
        /\ expl_bar = n.expl
        /\ hw = [cpp |-> <<{}, {}>>,
                 trigger |-> n.expl.trigger_exp_bar.exp_bar_cached_cfg,
                 data |-> n.expl.data_exp_bar.exp_bar_cached_cfg]
        /\ expl_csr = <<{}, {}, {}, {}>>
        /\ overflow_checks = oc
        /\ call = [op |-> "new"]
        /\ trace = n.trace
        /\ HostOfOneProcess

CppInit == NoDev /\ \E size \in {{12}, {20}}, oc \in BOOLEAN : CfgInitOf(size, oc, 0)
BarCfgInit == NoDev /\ \E oc \in BOOLEAN : CfgInitOf({20}, oc, 0)
XpbInit == NoDev /\ CfgInitOf({20}, FALSE, 0)
ExplInit == NoDev /\ \E index \in 0..(NUM_EXPL_BARS - 1) : CfgInitOf({20}, FALSE, index)


\* The BAR-config CSR content after the events of t, starting from w.
RECURSIVE HwAfter(_, _)
HwAfter(w, t) ==
    IF t = <<>> THEN w
    ELSE HwAfter(IF Head(t).ev = "cfg_write" THEN Head(t).words ELSE w, Tail(t))

\* No call is in progress: the caller has taken the result of the last one.
NoCall == [op |-> "idle"]

\* A CPP-backed call with result r (aperture and events) runs to its end.
CppDone(r, c) ==
    /\ call = NoCall
    /\ exp_bar' = r.bar
    /\ hw' = [hw EXCEPT !.cpp = HwAfter(hw.cpp, r.trace)]
    /\ trace' = r.trace
    /\ call' = c
    /\ UNCHANGED <<expl_bar, expl_csr, overflow_checks>>
    /\ UNCHANGED host_vars
    /\ UNCHANGED dev_vars

\* An ExplicitBar call with events t runs to its end.
ExplDone(t, c) ==
    /\ call = NoCall
    /\ expl_csr' = CsrAfter(expl_csr, t)
    /\ trace' = t
    /\ call' = c
    /\ UNCHANGED <<exp_bar, expl_bar, hw, overflow_checks>>
    /\ UNCHANGED host_vars
    /\ UNCHANGED dev_vars

XpbRead(island, address, length, xpbm) ==
    CppDone(xpb_read(exp_bar, hw.cpp, island, address, length, xpbm, overflow_checks),
            [op |-> "xpb_read", island |-> island, address |-> address,
             length |-> length, xpbm |-> xpbm])

XpbWrite(island, address, length, xpbm) ==
    CppDone(xpb_write(exp_bar, hw.cpp, island, address, length, xpbm, overflow_checks),
            [op |-> "xpb_write", island |-> island, address |-> address,
             length |-> length, xpbm |-> xpbm])

XpbExplicitRead32(island, address, xpbm) ==
    ExplDone(xpb_explicit_read32(expl_bar, hw, expl_csr, island, address, xpbm),
             [op |-> "xpb_explicit_read32", island |-> island, address |-> address,
              length |-> 1, xpbm |-> xpbm])

XpbExplicitWrite32(island, address, length, xpbm) ==
    ExplDone(xpb_explicit_write32(expl_bar, hw, expl_csr, island, address, length, xpbm),
             [op |-> "xpb_explicit_write32", island |-> island, address |-> address,
              length |-> length, xpbm |-> xpbm])

MemRead(island, mem_type, engine, address, length) ==
    CppDone(mem_read(exp_bar, hw.cpp, island, mem_type, engine, address, length,
                     overflow_checks),
            [op |-> "mem_read", island |-> island, mem_type |-> mem_type,
             engine |-> engine, address |-> address, length |-> length,
             map_before |-> exp_bar.exp_bar_map])

MemWrite(island, mem_type, engine, address, length) ==
    CppDone(mem_write(exp_bar, hw.cpp, island, mem_type, engine, address, length,
                      overflow_checks),
            [op |-> "mem_write", island |-> island, mem_type |-> mem_type,
             engine |-> engine, address |-> address, length |-> length,
             map_before |-> exp_bar.exp_bar_map])

\* CppBus::read and CppBus::write called directly, as nfp_cpp does.
CppRead(island, target, action, token, cpp_len, address, length) ==
    CppDone(cpp_access(exp_bar, hw.cpp, "read", island, target, action, token,
                       cpp_len, address, length, overflow_checks),
            [op |-> "cpp_read", island |-> island, target |-> target,
             action |-> action, token |-> token, cpp_len |-> cpp_len,
             address |-> address, length |-> length])

CppWrite(island, target, action, token, cpp_len, address, length) ==
    CppDone(cpp_access(exp_bar, hw.cpp, "write", island, target, action, token,
                       cpp_len, address, length, overflow_checks),
            [op |-> "cpp_write", island |-> island, target |-> target,
             action |-> action, token |-> token, cpp_len |-> cpp_len,
             address |-> address, length |-> length])

\* A caller sets the public field exp_bar_map and calls expansion_bar_cfg, as
\* ExplicitBar::new does (lines 35-48).
ExpansionBarCfg(map, island, target, action, token, base_addr, cpp_len) ==
    LET r == expansion_bar_cfg([exp_bar EXCEPT !.exp_bar_map = map],
                               CppIslandId(island), CppTargetId(target), action,
                               token, base_addr, CppLengthId(cpp_len),
                               overflow_checks)
    IN  CppDone([bar |-> r.bar,
                 trace |-> IF r.status = "ok" THEN CfgWrites(r)
                           ELSE <<Panic(r.status)>>],
                [op |-> "expansion_bar_cfg", map |-> map, island |-> island,
                 target |-> target, action |-> action, token |-> token,
                 base_addr |-> base_addr, cpp_len |-> cpp_len,
                 before |-> exp_bar.exp_bar_cached_cfg])

\* explicit_bar_cfg called directly.
ExplicitBarCfg(island, action, base_addr, sig_type, master_island) ==
    ExplDone(explicit_bar_cfg(expl_bar, CppIslandId(island), CppTargetId("Ct"),
                              action, 0, base_addr, sig_type, 0, 255,
                              master_island, None, None, None, None),
             [op |-> "explicit_bar_cfg", island |-> island, action |-> action,
              base_addr |-> base_addr, sig_type |-> sig_type,
              master_island |-> master_island])

\* run_explicit_cmd called directly.
RunExplicitCmd(offset, pull_data, push_data_len, require_sram) ==
    ExplDone(run_explicit_cmd(expl_bar, hw, expl_csr, offset, pull_data,
                              push_data_len, require_sram),
             [op |-> "run_explicit_cmd", offset |-> offset, pull_data |-> pull_data,
              push_data_len |-> push_data_len, require_sram |-> require_sram])

\* The caller takes the result of the call; the next call starts a new trace.
Return ==
    /\ call # NoCall
    /\ call' = NoCall
    /\ trace' = <<>>
    /\ UNCHANGED <<exp_bar, expl_bar, hw, expl_csr, overflow_checks>>
    /\ UNCHANGED host_vars
    /\ UNCHANGED dev_vars

\* --- the specifications of the single-process operations ---
CppNext ==
    \/ \E m \in MemTypes, e \in Engines, a \in MemAddrs :
           MemRead("Rfpc0", m, e, a, 1)
    \/ \E m \in MemTypes, e \in Engines, a \in MemAddrs :
           MemWrite("Rfpc0", m, e, a, MaxWords)
    \/ \E a \in CppAddrs, n \in Lengths : CppRead("Pcie0", "Ct", 4, 0, "Len32", a, n)
    \/ \E a \in CppAddrs, n \in Lengths : CppWrite("Rfpc0", "Mem", 4, 0, "Len32", a, n)
    \/ \E m \in MapType : ExpansionBarCfg(m, "Local", "Nbi", 0, 0, {20}, "Len32")
    \/ Return

BarCfgNext ==
    \/ \E m \in MapType \ {"Explicit"}, b \in CfgBases :
           ExpansionBarCfg(m, "Rfpc0", "Mem", 34, 1, b, "Len64")
    \/ ExpansionBarCfg("Explicit", "Local", "Nbi", 0, 0, {}, "Len32")
    \/ Return

XpbNext ==
    \/ \E i \in Islands, a \in XpbAddrs, g \in BOOLEAN : XpbRead(i, a, 1, g)
    \/ \E i \in Islands, a \in XpbAddrs, g \in BOOLEAN : XpbWrite(i, a, MaxWords, g)
    \/ \E i \in Islands, a \in XpbAddrs, g \in BOOLEAN : XpbExplicitRead32(i, a, g)
    \/ \E i \in Islands, a \in XpbAddrs, g \in BOOLEAN :
           XpbExplicitWrite32(i, a, 1, g)
    \/ Return

ExplNext ==
    \/ \E i \in Islands, b \in ExplBases, s \in {None, Some(1)}, mi \in {None, Some(2)} :
           ExplicitBarCfg(i, 0, b, s, mi)
    \/ \E o \in {{}, {6}}, pl \in {None, Some(1), Some(32), Some(33)},
          ps \in {None, Some(1), Some(2), Some(4), Some(8), Some(32), Some(33)},
          f \in BOOLEAN :
           RunExplicitCmd(o, pl, ps, f)
    \/ Return

SpecCpp == CppInit /\ [][CppNext]_vars
SpecBarCfg == BarCfgInit /\ [][BarCfgNext]_vars
SpecXpb == XpbInit /\ [][XpbNext]_vars
SpecExpl == ExplInit /\ [][ExplNext]_vars

(***************************************************************************)
(* The host: ExpansionBar instances of several processes on one device.    *)
(***************************************************************************)
\* The single process of the first group is absent from the host
\* specifications.
NoTool ==
    /\ exp_bar = None
    /\ expl_bar = None
    /\ hw = None
    /\ expl_csr = None
    /\ overflow_checks = FALSE
    /\ call = NoCall
    /\ trace = <<>>
    /\ NoDev

\* Instance h took or released a lock: every other instance that is in its
\* scan has had the lock table change under it.
Disturb(b, h) ==
    [k \in Instances |->
        IF k # h /\ b[k].state = "scanning" THEN [b[k] EXCEPT !.quiet = FALSE] ELSE b[k]]

\* ExpansionBar::new (lines 77-135) called by process p for instance h.  With
\* Some(bar_map) it takes that lock or panics (lines 78-91); with None it
\* enters allocate_exp_bar, whose tries are separate steps.
New(h, p, bar_mapping) ==
    /\ bars[h].state \in {"none", "failed"}
    /\ IF is_some(bar_mapping)
       THEN LET r == acquire_lock_file(flock, bar_mapping[1], h)
                b == [NoBar EXCEPT !.proc = p, !.mapping = bar_mapping,
                                   !.born = drops,
                                   !.tried = <<<<bar_mapping[1], ~r.ok>>>>]
            IN  /\ flock' = r.locks
                /\ bars' = IF r.ok
                           THEN Disturb([bars EXCEPT ![h] =
                                    [b EXCEPT !.state = "live", !.bar = bar_mapping[1]]], h)
                           ELSE [bars EXCEPT ![h] = [b EXCEPT !.state = "failed"]]
       ELSE /\ flock' = flock
            /\ bars' = [bars EXCEPT ![h] =
                           [NoBar EXCEPT !.state = "scanning", !.proc = p,
                                         !.pos = 1, !.born = drops]]
    /\ UNCHANGED <<drops, procs, expl_hw>>
    /\ UNCHANGED cfg_vars

\* One iteration of the loop of allocate_exp_bar (lines 164-171): a try of
\* bar_locks[pos].  Success returns it, failure moves to the next one, and
\* failure on the last one is the panic of line 173.
TryLock(h) ==
    /\ bars[h].state = "scanning"
    /\ LET b == bars[h]
           r == acquire_lock_file(flock, bar_locks[b.pos], h)
           t == Append(b.tried, <<bar_locks[b.pos], ~r.ok>>)
       IN  /\ flock' = r.locks
           /\ bars' =
                IF r.ok
                THEN Disturb([bars EXCEPT ![h] =
                         [b EXCEPT !.state = "live", !.bar = bar_locks[b.pos],
                                   !.tried = t, !.free_at_end = FreeExpBars(flock)]], h)
                ELSE IF b.pos = Len(bar_locks)
                THEN [bars EXCEPT ![h] =
                         [b EXCEPT !.state = "failed", !.tried = t,
                                   !.free_at_end = FreeExpBars(flock)]]
                ELSE [bars EXCEPT ![h] = [b EXCEPT !.pos = b.pos + 1, !.tried = t]]
    /\ UNCHANGED <<drops, procs, expl_hw>>
    /\ UNCHANGED cfg_vars

\* Drop for ExpansionBar (lines 333-340).
Drop(h) ==
    /\ bars[h].state = "live"
    /\ flock' = unlock(flock, bars[h].bar)
    /\ bars' = Disturb([bars EXCEPT ![h] = NoBar], h)
    /\ drops' = IF drops < 2 THEN drops + 1 ELSE drops
    /\ UNCHANGED <<procs, expl_hw>>
    /\ UNCHANGED cfg_vars

\* The sets of sub-apertures of BAR 2 that tool processes outside the model
\* hold from the start: none, all but 2.0, all.
OutsideHeld == {{}, ExpBars \ {0}, ExpBars}

\* The process an instance belongs to: the instances are spread over two
\* processes.  The lock of a lock file belongs to the open file that took it,
\* so the process plays no part in acquire_lock_file.
Owner(h) == 1 + (h % 2)

\* The explicit mappings the model hands to new.
BarMappings == {<<CPP_EXPANSION_BAR_PHYSICAL_BAR, 0>>, <<1, 0>>}

BarInit ==
    /\ \E ext \in OutsideHeld :
           flock = [l \in LockFiles |->
                       IF l[1] = CPP_EXPANSION_BAR_PHYSICAL_BAR /\ l[2] \in ext
                       THEN Outside ELSE Unlocked]
    /\ bars = [h \in Instances |-> NoBar]
    /\ drops = 0
    /\ procs = [p \in Procs |-> NoProc]
    /\ expl_hw = NoExplHw
    /\ NoTool

BarNext ==
    \/ \E h \in Instances : New(h, Owner(h), None)
    \/ \E h \in Instances, m \in BarMappings : New(h, Owner(h), Some(m))
    \/ \E h \in Instances : TryLock(h)
    \/ \E h \in Instances : Drop(h)

SpecBar == BarInit /\ [][BarNext]_vars

(***************************************************************************)
(* Properties of the allocation of expansion BARs (SpecBar).               *)
(***************************************************************************)
Live(h) == bars[h].state = "live"

\* The instance came out of allocate_exp_bar, not of an explicit mapping.
Scanned(h) == bars[h].mapping = None

\* C1: at most one live ExpansionBar holds a given <<phys_bar, exp_bar>>: no
\* two live instances, of one process or of two, are on the same pair, and the
\* lock of the pair of a live instance is held by that instance and by no
\* holder outside the model.
C1_MutualExclusion ==
    /\ \A h1 \in Instances, h2 \in Instances :
           (Live(h1) /\ Live(h2) /\ bars[h1].bar = bars[h2].bar) => h1 = h2
    /\ \A h \in Instances : Live(h) => flock[bars[h].bar] = h

\* C1, its case: an instance is live on a pair while another instance, which
\* tried that pair and was refused, is live on another pair.
C1_RefusedWhileHeld ==
    \E h1 \in Instances, h2 \in Instances :
        /\ h1 # h2
        /\ Live(h1) /\ Live(h2)
        /\ \E i \in 1..Len(bars[h2].tried) : bars[h2].tried[i] = <<bars[h1].bar, TRUE>>

\* C2 as stated: allocate_exp_bar returns the lowest index whose lock is free
\* at the time it returns, and fails only when all 8 locks are held at the
\* time it fails.
C2_LowestCurrentlyFree ==
    \A h \in Instances :
        /\ (Live(h) /\ Scanned(h)) => bars[h].bar[2] = Min(bars[h].free_at_end)
        /\ (bars[h].state = "failed" /\ Scanned(h)) => bars[h].free_at_end = {}

\* C2, amended: allocate_exp_bar tries the sub-apertures 0..7 of physical BAR
\* 2 in increasing index order and returns the first one whose lock was free
\* when it was tried; it fails if and only if each of the 8 was held when it
\* was tried.  When no other instance takes or releases a lock during the
\* scan, the index returned is the lowest one free and failure means that all
\* 8 are held.  A lock is held by an instance only while that instance is
\* live on its pair, so a dropped aperture is free again.
C2_LowestFreeWhenTried ==
    /\ \A h \in Instances : Scanned(h) =>
          LET b == bars[h]
              n == Len(b.tried)
              held(i) == b.tried[i][2]
          IN  /\ \A i \in 1..n : b.tried[i][1] = bar_locks[i]
              /\ \A i \in 1..(n - 1) : held(i)
              /\ b.state = "live" => (n >= 1 /\ ~held(n) /\ b.bar = bar_locks[n])
              /\ b.state = "failed" <=> (n = CPP_MAX_NUM_EXPANSION_BARS /\ held(n))
              /\ b.state = "scanning" => (b.pos = n + 1 /\ (n >= 1 => held(n)))
              /\ (b.state = "live" /\ b.quiet) => b.bar[2] = Min(b.free_at_end)
              /\ (b.state = "failed" /\ b.quiet) => b.free_at_end = {}
    /\ \A l \in LockFiles :
          flock[l] \in Instances => (Live(flock[l]) /\ bars[flock[l]].bar = l)

\* C2, its case: after two drops an allocation that started afterwards
\* returned sub-aperture 2.0 again.
C2_ReacquiredAfterDrops ==
    \E h \in Instances :
        /\ Live(h) /\ Scanned(h)
        /\ bars[h].born = 2
        /\ bars[h].bar = <<CPP_EXPANSION_BAR_PHYSICAL_BAR, 0>>

(***************************************************************************)
(* The host: processes that issue explicit commands through ExplicitBars   *)
(* (explicit_bar.rs).  The CSR writes, the SRAM staging, the trigger read  *)
(* and the SRAM read-back of a command are separate accesses to the        *)
(* device, so the steps of two processes interleave.                       *)
(***************************************************************************)
\* The holders of the locks of the two ExpansionBars of process p's
\* ExplicitBar.
TriggerHolder(p) == MaxBars + (2 * p) - 1
DataHolder(p) == MaxBars + (2 * p)

\* The sub-aperture <<phys_bar, exp_bar>> of an ExpansionBar record.
BarOf(bar) == <<bar.phys_bar, bar.exp_bar>>

\* The step of a command that an event of its trace is.
StepOf(e) ==
    CASE e.ev = "expl_cfg_write" -> "cfg"
      [] e.ev = "trigger" -> "trigger"
      [] e.ev = "mmap" /\ e.op = "write" -> "pull"
      [] e.ev = "mmap" /\ e.op = "read" -> "readback"
      [] OTHER -> "panic"

\* The steps of the command that explicit_bar_cfg followed by
\* run_explicit_cmd(pull_data, push_data_len, require_push_data_from_sram)
\* issues on ExplicitBar expl, in program order.
CommandSteps(expl, pull_data, push_data_len, require_push_data_from_sram) ==
    LET h == [trigger |-> expl.trigger_exp_bar.exp_bar_cached_cfg,
              data |-> expl.data_exp_bar.exp_bar_cached_cfg]
        c == explicit_bar_cfg(expl, CppIslandId("Rfpc0"), CppTargetId("Ct"), 0, 0,
                              {16}, Some(1), 0, 255, None, None, None, None, None)
        t == c \o run_explicit_cmd(expl, h, c[1].words, {}, pull_data,
                                   push_data_len, require_push_data_from_sram)
    IN  [i \in 1..Len(t) |-> StepOf(t[i])]

\* The device after process p does step on explicit-BAR index i: explicit_bar_cfg
\* writes the four CSRs of the index, pull staging writes its SRAM slot.
StepHw(w, step, i, p) ==
    CASE step = "cfg" -> [w EXCEPT ![i].csr = p]
      [] step = "pull" -> [w EXCEPT ![i].sram = p]
      [] OTHER -> w

\* Process p after the step numbered n of its command: a trigger executes
\* the command words that are in the CSRs at that moment, and a read-back
\* reads the slot as it is then; ran and got record whose they were.  The
\* last step ends the command.
StepProc(pr, n, w) ==
    LET i  == pr.expl.expl_bar_index
        s  == pr.steps[n]
        p1 == [pr EXCEPT !.done = n,
                         !.ran = IF s = "trigger" THEN w[i].csr ELSE @,
                         !.got = IF s = "readback" THEN w[i].sram ELSE @]
    IN  IF n = Len(pr.steps) THEN [p1 EXCEPT !.state = "ready"] ELSE p1

\* ExplicitBar::new(bdf, index) by process p (lines 33-57): each of the two
\* ExpansionBar::new(bdf, None) runs allocate_exp_bar.  The panic of an
\* allocation ends the process and leaves no lock behind.
ExplicitBarNew(p, index) ==
    /\ procs[p].state = "none"
    /\ LET t == allocate_exp_bar(flock, TriggerHolder(p), 1)
           d == allocate_exp_bar(t.locks, DataHolder(p), 1)
       IN  /\ t.ok /\ d.ok
           /\ flock' = d.locks
           /\ procs' = [procs EXCEPT ![p] =
                  [NoProc EXCEPT !.state = "ready",
                                 !.expl = explicit_bar_new(index, t.bar[2], d.bar[2],
                                                           {20}, FALSE).expl]]
    /\ UNCHANGED <<bars, drops, expl_hw>>
    /\ UNCHANGED cfg_vars

\* Process p starts a command: explicit_bar_cfg (lines 107-168), its first
\* step.
StartCommand(p, pull_data, push_data_len, require_push_data_from_sram) ==
    /\ procs[p].state = "ready"
    /\ LET pr == [procs[p] EXCEPT
                     !.state = "running",
                     !.steps = CommandSteps(procs[p].expl, pull_data, push_data_len,
                                            require_push_data_from_sram),
                     !.ran = 0, !.got = 0]
           i  == pr.expl.expl_bar_index
       IN  /\ expl_hw' = StepHw(expl_hw, pr.steps[1], i, p)
           /\ procs' = [procs EXCEPT ![p] = StepProc(pr, 1, expl_hw')]
    /\ UNCHANGED <<flock, bars, drops>>
    /\ UNCHANGED cfg_vars

\* Process p does the next step of run_explicit_cmd (lines 201-236).
NextStep(p) ==
    /\ procs[p].state = "running"
    /\ LET pr == procs[p]
           n  == pr.done + 1
           i  == pr.expl.expl_bar_index
       IN  /\ expl_hw' = StepHw(expl_hw, pr.steps[n], i, p)
           /\ procs' = [procs EXCEPT ![p] = StepProc(pr, n, expl_hw')]
    /\ UNCHANGED <<flock, bars, drops>>
    /\ UNCHANGED cfg_vars

\* Process p drops its ExplicitBar: its two ExpansionBars are dropped.
DropExplicitBar(p) ==
    /\ procs[p].state = "ready"
    /\ flock' = unlock(unlock(flock, BarOf(procs[p].expl.trigger_exp_bar)),
                       BarOf(procs[p].expl.data_exp_bar))
    /\ procs' = [procs EXCEPT ![p] = NoProc]
    /\ UNCHANGED <<bars, drops, expl_hw>>
    /\ UNCHANGED cfg_vars

\* The explicit-BAR indexes the processes use; nfp_gdb and nfp_rfpc_reg use
\* index 0.
ExplIndexes == {0}

\* The commands: <<pull_data, push_data_len, require_push_data_from_sram>> of
\* a 32-bit write, a 32-bit read, and a two-word read through the SRAM slot.
Commands == {<<Some(1), None, FALSE>>, <<None, Some(1), FALSE>>, <<Some(1), Some(2), TRUE>>}

ProcsInit ==
    /\ flock = [l \in LockFiles |-> Unlocked]
    /\ bars = [h \in Instances |-> NoBar]
    /\ drops = 0
    /\ procs = [p \in Procs |-> NoProc]
    /\ expl_hw = NoExplHw
    /\ NoTool

ProcsNext ==
    \/ \E p \in Procs, i \in ExplIndexes : ExplicitBarNew(p, i)
    \/ \E p \in Procs, c \in Commands : StartCommand(p, c[1], c[2], c[3])
    \/ \E p \in Procs : NextStep(p)
    \/ \E p \in Procs : DropExplicitBar(p)

SpecProcs == ProcsInit /\ [][ProcsNext]_vars

\* Process p is between two steps of a command on explicit-BAR index i.
InCommand(p, i) ==
    /\ procs[p].state = "running"
    /\ procs[p].expl.expl_bar_index = i

\* C3: the four command-config CSRs and the SRAM slot of an explicit-BAR
\* index are used by one process at a time: no two processes are inside a
\* command on the same index, a trigger executes the command words its own
\* process wrote, and a read-back finds the slot not overwritten by another
\* process's staging.
C3_OneProcessPerIndex ==
    /\ \A p \in Procs, q \in Procs, i \in ExplIndexes :
           (InCommand(p, i) /\ InCommand(q, i)) => p = q
    /\ \A p \in Procs :
           procs[p].state # "none" => (procs[p].ran \in {0, p} /\ procs[p].got \in {0, p})

(***************************************************************************)
(* Properties of the operations of one process (SpecBarCfg, SpecCpp,       *)
(* SpecXpb, SpecExpl).  They are stated of the call that has just ended:   *)
(* call holds its arguments and trace its events in program order.         *)
(***************************************************************************)
\* Some event of the last call is a panic: the call was rejected.
Rejected == \E i \in 1..Len(trace) : trace[i].ev = "panic"

\* A word is a multiple of the power of two size.
MultipleOf(a, size) == a \cap (0..(Max(size) - 1)) = {}

\* C4: expansion_bar_cfg under a non-Explicit map type rejects a base address
\* exactly when it has a bit set at position 48 or above or its lowest set bit
\* lies below bit 48 - width(map type); a rejected call writes nothing to
\* config space and leaves the cached pair as it was.
C4_RejectionRule ==
    (call.op = "expansion_bar_cfg" /\ call.map # "Explicit") =>
        LET b    == call.base_addr
            wide == \E i \in b : i >= 48
            low  == b # {} /\ Min(b) < 48 - base_addr_width(call.map)
        IN  /\ Rejected <=> (wide \/ low)
            /\ Rejected =>
                   /\ \A i \in 1..Len(trace) : trace[i].ev # "cfg_write"
                   /\ exp_bar.exp_bar_cached_cfg = call.before

\* C5: for a power-of-two aperture size and a 48-bit address, the split of
\* configure_exp_bar and split_addr48 both give a base that is a multiple of
\* the size, with base + offset = address and offset < size; every mmap
\* access of a CPP read or write is made at that offset, after the config
\* writes of the call, with the CSRs holding the translation of that base.
C5_AddressSplit ==
    (call.op \in {"cpp_read", "cpp_write", "mem_read", "mem_write"}
        /\ call.address \subseteq 0..47) =>
        LET size == exp_bar.exp_bar_size
            a    == call.address
            base == cpp_base_addr(size, a)
            off  == Sub(a, base)
            sp   == split_addr48(a, size)
        IN  /\ MultipleOf(base, size) /\ Add(base, off) = a /\ Less(off, size)
            /\ MultipleOf(sp[1], size) /\ Add(sp[1], sp[2]) = a /\ Less(sp[2], size)
            /\ exp_bar.exp_bar_base_addr = base
            /\ \A i \in 1..Len(trace) : trace[i].ev = "mmap" =>
                   /\ trace[i].base = base
                   /\ trace[i].offset = off
                   /\ trace[i].cfg = exp_bar.exp_bar_cached_cfg
                   /\ trace[i].cfg = hw.cpp
                   /\ call.op \in {"cpp_read", "cpp_write"} =>
                          trace[i].cfg = cfg_words(trace[i].map, CppIslandId(call.island),
                                                   CppTargetId(call.target), call.action,
                                                   call.token, base,
                                                   CppLengthId(call.cpp_len))
                   /\ \A j \in 1..Len(trace) : trace[j].ev = "cfg_write" => j < i

\* C5, its case: a CPP write at 0x12345678 programmed a non-zero base and then
\* made its mmap access at a non-zero offset.
C5_SplitProgrammedThenAccessed ==
    /\ call.op = "cpp_write"
    /\ call.address = Bits(305419896)
    /\ \E i \in 1..Len(trace), j \in 1..Len(trace) :
           /\ i < j
           /\ trace[i].ev = "cfg_write"
           /\ trace[j].ev = "mmap"
           /\ trace[j].base # {}
           /\ trace[j].offset # {}

XpbOps == {"xpb_read", "xpb_write", "xpb_explicit_read32", "xpb_explicit_write32"}

\* C6: every XPB operation on a 24-bit input address addresses its transaction
\* to the given island at (address & 0x00FFFFFF) | (island_id << 24) when xpbm
\* is false, and to the chip-exec island at (address & 0x00FFFFFF) |
\* 0x80000000, without island-id bits, when xpbm is true.  The address of a
\* CPP-backed access is the programmed base plus the mmap offset and its
\* island the island field of BAR-config word 0; the address of an explicit
\* command is the base in command-config word 3 plus the trigger offset and
\* its island the target-island field of word 2.
C6_XpbAddressComposition ==
    (call.op \in XpbOps /\ call.address \cap (24..63) = {}) =>
        LET low  == BitAnd(call.address, Bits(16777215))
            addr == IF call.xpbm THEN low \cup {31}
                    ELSE low \cup Field(Bits(CppIslandId(call.island)), 127, 24)
            isl  == IF call.xpbm THEN CppIslandId("ChipExec") ELSE CppIslandId(call.island)
        IN  \A i \in 1..Len(trace) :
                /\ (trace[i].ev = "mmap" /\ call.op \in {"xpb_read", "xpb_write"}) =>
                       /\ Add(trace[i].base, trace[i].offset) = addr
                       /\ Shr(trace[i].cfg[1] \cap (24..30), 24) = Bits(isl)
                /\ trace[i].ev = "trigger" =>
                       /\ Add(Shl(trace[i].csr[4], 16), trace[i].offset) = addr
                       /\ Shr(trace[i].csr[3] \cap (16..22), 16) = Bits(isl)

\* C7: every XPB operation whose input address has a bit set above bit 23 is
\* rejected before any BAR-config write or bus access: its only event is the
\* panic.
C7_WideAddressRejected ==
    (call.op \in XpbOps /\ call.address \cap (24..63) # {}) =>
        /\ Rejected
        /\ \A i \in 1..Len(trace) : trace[i].ev = "panic"

MemOps == {"mem_read", "mem_write"}

\* C8 as stated: mem_read and mem_write put the aperture into the Bulk map
\* type, and every memory access goes through a Bulk-mapped aperture.
C8_MemAccessThroughBulk ==
    call.op \in MemOps =>
        /\ exp_bar.exp_bar_map = "Bulk"
        /\ \A i \in 1..Len(trace) : trace[i].ev = "mmap" => trace[i].map = "Bulk"

\* C8, amended: whatever map type the aperture was in before, mem_read and
\* mem_write put it into the Fixed map type and re-program its translation
\* before the memory transaction is issued: every memory access is made with
\* the CSRs holding the Fixed translation computed by the call, and when the
\* aperture was in another map type the config write precedes the access.
C8_MemAccessThroughFixed ==
    call.op \in MemOps =>
        /\ exp_bar.exp_bar_map = "Fixed"
        /\ \A i \in 1..Len(trace) : trace[i].ev = "mmap" =>
               /\ trace[i].map = "Fixed"
               /\ 31 \in trace[i].cfg[1]
               /\ Shr(trace[i].cfg[1] \cap (20..22), 20) = Bits(MapTypeId("Fixed"))
               /\ trace[i].cfg = exp_bar.exp_bar_cached_cfg
               /\ trace[i].cfg = hw.cpp
               /\ call.map_before # "Fixed" =>
                      \E j \in 1..(i - 1) : trace[j].ev = "cfg_write"

\* C8, its case: a mem_read on an aperture that was in the Bulk map type made
\* its access.
C8_MemReadAfterBulk ==
    /\ call.op = "mem_read"
    /\ call.map_before = "Bulk"
    /\ \E i \in 1..Len(trace) : trace[i].ev = "mmap"

\* C9: explicit_bar_cfg rejects exactly the base addresses that have one of
\* their low 16 bits set, and accepts every other one, 0 included; a rejected
\* call writes none of the four command-config CSRs.  (Calls that break the
\* sig_type rule are rejected for that and are not the subject.)
C9_Low16BitsRejected ==
    (call.op = "explicit_bar_cfg"
        /\ ~(is_some(call.sig_type) /\ is_some(call.master_island))) =>
        /\ Rejected <=> call.base_addr \cap (0..15) # {}
        /\ Rejected => \A i \in 1..Len(trace) : trace[i].ev # "expl_cfg_write"

\* C10: the SRAM accesses of explicit-BAR index i go to fabric address
\* PCIE_INT_SRAM_BASE + SRAM_DATA_BASE_OFFSET + 128 * i: the base address
\* programmed into the data aperture plus the mmap offset is that address, and
\* an access stays inside the 128 bytes of the slot.
C10_SramSlotAddress ==
    call.op = "run_explicit_cmd" =>
        LET slot == Bits(PCIE_INT_SRAM_BASE + SRAM_DATA_BASE_OFFSET
                         + (SRAM_DATA_EXPL_BAR_OFFSET * expl_bar.expl_bar_index))
        IN  \A i \in 1..Len(trace) : trace[i].ev = "mmap" =>
                /\ ~Less(slot, trace[i].offset)
                /\ trace[i].cfg = cfg_words("General", CppIslandId("Local"), 0, 0, 0,
                                            Sub(slot, trace[i].offset),
                                            CppLengthId("Len32"))
                /\ trace[i].bytes <= SRAM_DATA_EXPL_BAR_OFFSET

(***************************************************************************)
(* The RFPC debugger (rfpc.rs, rfpc_debugger.rs).  Every access to the     *)
(* RISC-V debug module is an xpb_explicit_write32 or xpb_explicit_read32   *)
(* of one word at dm_xpb_base + register offset with xpbm = true; these    *)
(* addresses are below 2^24, so the transport never rejects them.          *)
(***************************************************************************)
\* Register offsets (rfpc_debugger.rs, lines 19-45).
RISCV_DBG_DATA0 == 16
RISCV_DBG_DATA1 == 20
RISCV_DBG_DMCONTROL == 64
RISCV_DBG_DMSTATUS == 68
RISCV_DBG_ABSTRACTCS == 88
RISCV_DBG_COMMAND == 92
RISCV_DBG_PROGBUF0 == 128

\* Register field masks (lines 76-109).
RISCV_DBG_DMCONTROL_HALTREQ == {31}
RISCV_DBG_DMCONTROL_RESUMEREQ == {30}
RISCV_DBG_DMCONTROL_DMACTIVE == {0}
RISCV_DBG_DMSTATUS_ALLRUNNING == {11}
RISCV_DBG_DMSTATUS_ALLHALTED == {9}
RISCV_DBG_ABSTRACTCS_BUSY == {12}
RISCV_DBG_ABSTRACTCS_CMDERR == {8, 9, 10}

\* The deadline of the three poll loops and the sleep between two polls, in
\* milliseconds (lines 148 and 164).
timeout_duration == 10000
poll_sleep == 100

\* The program-buffer instructions `ld a0, 0(a0)` and `sd a1, 0(a0)` (lines
\* 364 and 482) and the abstract-register numbers of a0 and a1.
PROGBUF_LD_A0 == 341251
PROGBUF_SD_A1 == 11874339
REGNO_A0 == 4106
REGNO_A1 == 4107

\* Rfpc::dm_xpb_base and Rfpc::dm_hartsel (rfpc.rs, lines 259-292).
dm_xpb_base(rfpc) ==
    CASE rfpc.cluster = 0 -> 2359296
      [] rfpc.cluster = 1 -> 3276800
      [] rfpc.cluster = 2 -> 4194304
dm_hartsel(rfpc) ==
    LET hartsel == 8 * rfpc.group + rfpc.core
    IN  <<hartsel % 1024, (hartsel \div 1024) % 1024>>

\* The events of one debug-module register access.
DmWrite(rfpc, reg, data) ==
    [ev |-> "xpb_explicit_write32", island |-> rfpc.island,
     address |-> dm_xpb_base(rfpc) + reg, reg |-> reg, data |-> data, xpbm |-> TRUE]
DmRead(rfpc, reg, value) ==
    [ev |-> "xpb_explicit_read32", island |-> rfpc.island,
     address |-> dm_xpb_base(rfpc) + reg, reg |-> reg, value |-> value, xpbm |-> TRUE]

\* --- the hart and its debug module, as the debugger drives them ---
\* Word indices of the hart's memory: 32-bit words at byte addresses 0, 4, ...
MemWordIdx == 0..15

\* An address the hart can load or store a double word at.
mem_valid(a) == a \subseteq 3..8 /\ Val(a) + 8 <= 4 * Cardinality(MemWordIdx)

\* The command never completes.
Stuck == 0 - 1

\* The registers of the hart an Access Register command can name: the GPRs
\* x0..x31 (0x1000..0x101f; a0 and a1 are x10 and x11) and dpc (0x7b1).  x0
\* is hard wired to zero.
DmRegnos == (4096..4127) \cup {1969}
reg_get(d, regno) ==
    IF regno = REGNO_A0 THEN d.a0
    ELSE IF regno = REGNO_A1 THEN d.a1
    ELSE IF regno = 4096 THEN {}
    ELSE d.regs[regno]
reg_set(d, regno, value) ==
    IF regno = REGNO_A0 THEN [d EXCEPT !.a0 = value]
    ELSE IF regno = REGNO_A1 THEN [d EXCEPT !.a1 = value]
    ELSE IF regno = 4096 THEN d
    ELSE [d EXCEPT !.regs[regno] = value]

\* The debug module executes the Access Register command written to its
\* command register (lines 270, 318, 367-370, 456-457, 486-487): the 64-bit
\* transfer between data1:data0 and the register, then the instruction in
\* progbuf0 when postexec is set.  cmderr is 2 for a command it does not
\* support, 3 when the instruction traps, 4 when the hart is not halted; a
\* command is ignored while cmderr is nonzero.
dm_execute(d, command) ==
    LET regno == Val(BitAnd(command, Bits(65535)))
        d1    == IF 17 \notin command THEN d
                 ELSE IF 16 \in command
                 THEN reg_set(d, regno, d.data0 \cup Shl(d.data1, 32))
                 ELSE [d EXCEPT !.data0 = AsU32(reg_get(d, regno)),
                                !.data1 = Shr(reg_get(d, regno), 32)]
        w     == Val(d1.a0) \div 4
    IN  IF d.cmderr # 0 THEN d
        ELSE IF d.busy # 0 THEN [d EXCEPT !.cmderr = 1]
        ELSE IF Shr(command, 24) # {} \/ regno \notin DmRegnos
                \/ BitAnd(command, {20, 21, 22}) # {20, 21}
        THEN [d EXCEPT !.cmderr = 2]
        ELSE IF d.hart # "halted" THEN [d EXCEPT !.cmderr = 4]
        ELSE IF 18 \notin command THEN d1
        ELSE IF ~mem_valid(d1.a0) THEN [d1 EXCEPT !.cmderr = 3]
        ELSE IF d1.progbuf0 = Bits(PROGBUF_LD_A0)
        THEN [d1 EXCEPT !.a0 = d1.mem[w] \cup Shl(d1.mem[w + 1], 32)]
        ELSE IF d1.progbuf0 = Bits(PROGBUF_SD_A1)
        THEN [d1 EXCEPT !.mem = [@ EXCEPT ![w] = AsU32(d1.a1),
                                          ![w + 1] = Shr(d1.a1, 32)]]
        ELSE [d1 EXCEPT !.cmderr = 3]

\* The debug module after the write of data to register reg; a command
\* written stays busy for the next `busy` reads of abstractcs.
dm_write(d, reg, data, busy) ==
    CASE reg = RISCV_DBG_DMCONTROL ->
             [d EXCEPT !.req = IF BitAnd(data, RISCV_DBG_DMCONTROL_HALTREQ) # {}
                               THEN "halt"
                               ELSE IF BitAnd(data, RISCV_DBG_DMCONTROL_RESUMEREQ) # {}
                               THEN "resume" ELSE @]
      [] reg = RISCV_DBG_COMMAND ->
             IF d.cmderr # 0 \/ d.busy # 0 THEN dm_execute(d, data)
             ELSE [dm_execute(d, data) EXCEPT !.busy = busy]
      [] reg = RISCV_DBG_ABSTRACTCS ->
             [d EXCEPT !.cmderr = Val(Bits(@) \ Shr(BitAnd(data, RISCV_DBG_ABSTRACTCS_CMDERR), 8))]
      [] reg = RISCV_DBG_DATA0 -> [d EXCEPT !.data0 = data]
      [] reg = RISCV_DBG_DATA1 -> [d EXCEPT !.data1 = data]
      [] reg = RISCV_DBG_PROGBUF0 -> [d EXCEPT !.progbuf0 = data]
      [] OTHER -> d

\* The word a read of register reg returns.
dm_read(d, reg) ==
    CASE reg = RISCV_DBG_DMSTATUS ->
             IF d.hart = "halted" THEN {9, 8} ELSE {11, 10}
      [] reg = RISCV_DBG_ABSTRACTCS ->
             (IF d.busy # 0 THEN RISCV_DBG_ABSTRACTCS_BUSY ELSE {})
             \cup Shl(Bits(d.cmderr), 8)
      [] reg = RISCV_DBG_DATA0 -> d.data0
      [] reg = RISCV_DBG_DATA1 -> d.data1
      [] OTHER -> {}

\* Time passes with every poll of abstractcs.
dm_polled(d, reg) ==
    IF reg = RISCV_DBG_ABSTRACTCS /\ d.busy > 0 THEN [d EXCEPT !.busy = @ - 1] ELSE d

\* The debug module after the write events of t.
RECURSIVE DmAfter(_, _, _)
DmAfter(d, t, busy) ==
    IF t = <<>> THEN d
    ELSE DmAfter(IF Head(t).ev = "xpb_explicit_write32"
                 THEN dm_write(d, Head(t).reg, Head(t).data, busy) ELSE d,
                 Tail(t), busy)

\* --- the debugger's register accesses ---
\* The dmcontrol word of rfpc_dbg_halt, rfpc_dbg_resume and
\* rfpc_dbg_abstractcmd (lines 131-135, 169-173, 211-214).
dmcontrol_word(rfpc, req) ==
    Shl(Bits(dm_hartsel(rfpc)[1]), 16) \cup RISCV_DBG_DMCONTROL_DMACTIVE \cup req

\* rfpc_dbg_abstractcmd up to its poll loop (lines 211-232).
abstractcmd_writes(rfpc, cmdtype, control) ==
    << DmWrite(rfpc, RISCV_DBG_DMCONTROL, dmcontrol_word(rfpc, {})),
       DmWrite(rfpc, RISCV_DBG_COMMAND,
               AsU32(Shl(Bits(cmdtype % 256), 24) \cup Bits(control % 16777216))) >>

\* An abstract command that leaves the error code in place.
abstractcmd_no_clear(rfpc, abstractcs) == <<>>

\* rfpc_dbg_abstractcmd after its poll loop (lines 255-266): the write that
\* clears the error, and the error code returned.
abstractcmd_clear(rfpc, abstractcs) ==
    IF BitAnd(abstractcs, RISCV_DBG_ABSTRACTCS_CMDERR) # {}
    THEN <<DmWrite(rfpc, RISCV_DBG_ABSTRACTCS, RISCV_DBG_ABSTRACTCS_CMDERR)>>
    ELSE <<>>
abstractcmd_code(abstractcs) ==
    Val(Shr(BitAnd(abstractcs, RISCV_DBG_ABSTRACTCS_CMDERR), 8))

(***************************************************************************)
(* The poll loops of rfpc_dbg_halt, rfpc_dbg_resume and                    *)
(* rfpc_dbg_abstractcmd, step by step.  dbg.pc is the position in the loop *)
(* (deadline: the test of start_time.elapsed(); read: the register read    *)
(* and the test of its bit; sleep: thread::sleep), dbg.elapsed the         *)
(* milliseconds since start_time, dbg.value the word read last.            *)
(***************************************************************************)
DbgIdle == [pc |-> "idle", elapsed |-> 0, timed_out |-> FALSE, value |-> {}, code |-> 0]

\* The hart is running or halted, with some content in its registers and
\* memory, and the debug module is at rest.
DmInitOf(hart, progbuf0) ==
    [hart |-> hart, req |-> "none", busy |-> 0, cmderr |-> 0,
     data0 |-> {}, data1 |-> {}, progbuf0 |-> progbuf0,
     a0 |-> {3, 33}, a1 |-> {1, 5, 40},
     regs |-> [r \in DmRegnos \ {REGNO_A0, REGNO_A1} |-> Bits(r) \cup {32 + (r % 32)}],
     mem |-> [i \in MemWordIdx |-> Bits(256 + i)]]

\* A deadline that never passes.
deadline_never(elapsed) == FALSE

\* start_time.elapsed() > timeout_duration (lines 150, 188, 239).
deadline_passed(elapsed) == elapsed > timeout_duration

\* The clock after d more milliseconds; past the deadline it need not be
\* told apart any further.
Tick(elapsed, d) == Min({elapsed + d, timeout_duration + 3 * poll_sleep})

\* The register a loop polls and the test that ends it (lines 155-163,
\* 192-200, 243-251).
PollReg(c) ==
    IF c.op = "rfpc_dbg_abstractcmd" THEN RISCV_DBG_ABSTRACTCS ELSE RISCV_DBG_DMSTATUS
PollExit(c, v) ==
    CASE c.op = "rfpc_dbg_halt" -> BitAnd(v, RISCV_DBG_DMSTATUS_ALLHALTED) # {}
      [] c.op = "rfpc_dbg_resume" -> BitAnd(v, RISCV_DBG_DMSTATUS_ALLRUNNING) # {}
      [] c.op = "rfpc_dbg_abstractcmd" -> BitAnd(v, RISCV_DBG_ABSTRACTCS_BUSY) = {}

\* The events so far with one more poll; of successive polls only the last
\* is kept.
Polled(t, e) ==
    IF t # <<>> /\ t[Len(t)].ev = "xpb_explicit_read32"
    THEN [t EXCEPT ![Len(t)] = e] ELSE Append(t, e)

\* The writes before the loop (lines 131-144, 169-182, 211-232); start_time
\* is taken after them.
PollStart(c, writes, busy) ==
    /\ call = NoCall
    /\ dbg.pc = "idle"
    /\ call' = c
    /\ trace' = writes
    /\ dm' = DmAfter(dm, writes, busy)
    /\ dbg' = [DbgIdle EXCEPT !.pc = "deadline"]
    /\ UNCHANGED <<exp_bar, expl_bar, hw, expl_csr, overflow_checks>>
    /\ UNCHANGED host_vars
    /\ UNCHANGED <<pa, vt, rsp>>

RfpcDbgHalt(rfpc) ==
    PollStart([op |-> "rfpc_dbg_halt", rfpc |-> rfpc],
              <<DmWrite(rfpc, RISCV_DBG_DMCONTROL,
                        dmcontrol_word(rfpc, RISCV_DBG_DMCONTROL_HALTREQ))>>, 0)

RfpcDbgResume(rfpc) ==
    PollStart([op |-> "rfpc_dbg_resume", rfpc |-> rfpc],
              <<DmWrite(rfpc, RISCV_DBG_DMCONTROL,
                        dmcontrol_word(rfpc, RISCV_DBG_DMCONTROL_RESUMEREQ))>>, 0)

RfpcDbgAbstractcmd(rfpc, cmdtype, control, busy) ==
    PollStart([op |-> "rfpc_dbg_abstractcmd", rfpc |-> rfpc, cmdtype |-> cmdtype,
               control |-> control],
              abstractcmd_writes(rfpc, cmdtype, control), busy)

\* The loop is left with v the word read last: what follows the loop (for
\* rfpc_dbg_abstractcmd lines 255-266) and the return.
PollLeave(v, timed_out, d, t, e) ==
    LET clear == IF call.op = "rfpc_dbg_abstractcmd"
                 THEN abstractcmd_clear(call.rfpc, v) ELSE <<>>
    IN  /\ dbg' = [pc |-> "done", elapsed |-> e, timed_out |-> timed_out,
                   value |-> v, code |-> abstractcmd_code(v)]
        /\ trace' = t \o clear
        /\ dm' = DmAfter(d, clear, 0)

PollDeadline ==
    /\ dbg.pc = "deadline"
    /\ IF deadline_passed(dbg.elapsed)
       THEN PollLeave(dbg.value, TRUE, dm, trace, dbg.elapsed)
       ELSE /\ dbg' = [dbg EXCEPT !.pc = "read"]
            /\ UNCHANGED <<dm, trace>>
    /\ UNCHANGED <<exp_bar, expl_bar, hw, expl_csr, overflow_checks, call>>
    /\ UNCHANGED host_vars
    /\ UNCHANGED <<pa, vt, rsp>>

\* The read takes d milliseconds.
PollRead(d) ==
    /\ dbg.pc = "read"
    /\ LET reg == PollReg(call)
           v   == dm_read(dm, reg)
           t   == Polled(trace, DmRead(call.rfpc, reg, v))
       IN  IF PollExit(call, v)
           THEN PollLeave(v, FALSE, dm_polled(dm, reg), t, Tick(dbg.elapsed, d))
           ELSE /\ dbg' = [dbg EXCEPT !.pc = "sleep", !.value = v,
                                      !.elapsed = Tick(@, d)]
                /\ dm' = dm_polled(dm, reg)
                /\ trace' = t
    /\ UNCHANGED <<exp_bar, expl_bar, hw, expl_csr, overflow_checks, call>>
    /\ UNCHANGED host_vars
    /\ UNCHANGED <<pa, vt, rsp>>

\* thread::sleep returns after d >= 100 milliseconds.
PollSleep(d) ==
    /\ dbg.pc = "sleep"
    /\ dbg' = [dbg EXCEPT !.pc = "deadline", !.elapsed = Tick(@, d)]
    /\ UNCHANGED <<exp_bar, expl_bar, hw, expl_csr, overflow_checks, call, trace, dm>>
    /\ UNCHANGED host_vars
    /\ UNCHANGED <<pa, vt, rsp>>

\* The hart follows the halt or resume request, at a moment of its own.
HartResponds ==
    /\ dm.req # "none"
    /\ dm' = [dm EXCEPT !.hart = IF dm.req = "halt" THEN "halted" ELSE "running",
                        !.req = "none"]
    /\ UNCHANGED <<exp_bar, expl_bar, hw, expl_csr, overflow_checks, call, trace, dbg>>
    /\ UNCHANGED host_vars
    /\ UNCHANGED <<pa, vt, rsp>>

DbgReturn ==
    /\ dbg.pc = "done"
    /\ call' = NoCall
    /\ trace' = <<>>
    /\ dbg' = DbgIdle
    /\ UNCHANGED <<exp_bar, expl_bar, hw, expl_csr, overflow_checks, dm>>
    /\ UNCHANGED host_vars
    /\ UNCHANGED <<pa, vt, rsp>>

Rfpcs == {[island |-> "Rfpc0", cluster |-> 0, group |-> 0, core |-> 1],
          [island |-> "Rfpc6", cluster |-> 2, group |-> 3, core |-> 7]}
\* Abstract commands <<cmdtype, control, busy>>: a read of a0 (control
\* 0x32100a) that completes at once, a command of type 0x102 with a bit above
\* the control field (0x132100a) that is busy for two polls, and a write of a0
\* with postexec (0x37100a) that never completes.
AbstractCmds == {<<0, 3280906, 0>>, <<258, 20058122, 2>>, <<0, 3608586, Stuck>>}

\* A debugger process (nfp_rfpc_reg, nfp_gdb) starts with ExplicitBar::new(0)
\* and has made no call yet.
DebuggerInit(oc) ==
    LET n == explicit_bar_new(0, 1, 2, {20}, oc)
    IN  /\ exp_bar = None
        /\ expl_bar = n.expl
        /\ hw = [cpp |-> <<{}, {}>>,
                 trigger |-> n.expl.trigger_exp_bar.exp_bar_cached_cfg,
                 data |-> n.expl.data_exp_bar.exp_bar_cached_cfg]
        /\ expl_csr = <<{}, {}, {}, {}>>
        /\ overflow_checks = oc
        /\ call = NoCall
        /\ trace = <<>>
        /\ HostOfOneProcess

PollInit ==
    /\ DebuggerInit(FALSE)
    /\ dbg = DbgIdle
    /\ \E h \in {"running", "halted"} : dm = DmInitOf(h, Bits(PROGBUF_LD_A0))
    /\ pa = None
    /\ vt = None
    /\ rsp = None

PollStep ==
    \/ PollDeadline
    \/ \E d \in {0, poll_sleep} : PollRead(d)
    \/ \E d \in {poll_sleep, 2 * poll_sleep} : PollSleep(d)

PollNext ==
    \/ \E r \in Rfpcs : RfpcDbgHalt(r)
    \/ \E r \in Rfpcs : RfpcDbgResume(r)
    \/ \E r \in Rfpcs, c \in AbstractCmds : RfpcDbgAbstractcmd(r, c[1], c[2], c[3])
    \/ PollStep
    \/ HartResponds
    \/ DbgReturn

\* The debugger's thread keeps running; the hart need not respond.
SpecPoll == PollInit /\ [][PollNext]_vars /\ WF_vars(PollStep)

\* The outcome of a halt or resume call: the only write is the first event,
\* dmcontrol = dmactive | haltreq (resumereq) | hartsello << 16; every later
\* event is a read of dmstatus; the call ends because the bit was read or
\* because more than 10 seconds had passed, and it ends without a panic.
C11_PollOutcome ==
    (call.op \in {"rfpc_dbg_halt", "rfpc_dbg_resume"} /\ dbg.pc = "done") =>
        LET r    == call.rfpc
            req  == IF call.op = "rfpc_dbg_halt" THEN {31} ELSE {30}
            bit  == IF call.op = "rfpc_dbg_halt" THEN 9 ELSE 11
            last == trace[Len(trace)]
        IN  /\ trace[1].ev = "xpb_explicit_write32"
            /\ trace[1].reg = 64
            /\ trace[1].data = {0} \cup req \cup Shl(Bits((8 * r.group + r.core) % 1024), 16)
            /\ \A i \in 2..Len(trace) :
                   trace[i].ev = "xpb_explicit_read32" /\ trace[i].reg = 68
            /\ IF dbg.timed_out
               THEN dbg.elapsed > 10000
                    /\ (Len(trace) > 1 => bit \notin last.value)
               ELSE Len(trace) > 1 /\ bit \in last.value

\* C11: rfpc_dbg_halt and rfpc_dbg_resume always terminate: after the write
\* of dmcontrol they poll dmstatus until ALLHALTED (ALLRUNNING) is read or the
\* 10-second deadline has passed, and on the deadline they return normally.
C11_HaltResumeTerminate ==
    /\ []C11_PollOutcome
    /\ [](call.op \in {"rfpc_dbg_halt", "rfpc_dbg_resume"} => <>(dbg.pc = "done"))

\* A halt request the hart never followed: the call returned on the deadline.
C11_HaltTimedOut ==
    /\ call.op = "rfpc_dbg_halt"
    /\ dbg.pc = "done"
    /\ dbg.timed_out
    /\ dm.hart = "running"
    /\ Len(trace) = 2

\* C12: rfpc_dbg_abstractcmd writes dmcontrol with dmactive = 1, then command
\* = (cmdtype << 24) | (control & 0xFFFFFF), then polls abstractcs until BUSY
\* is 0 or the deadline; if CMDERR of the last abstractcs value read is
\* nonzero it writes the CMDERR mask to abstractcs and returns that code,
\* otherwise it returns 0 and writes nothing more.
C12_AbstractCmdOrder ==
    (call.op = "rfpc_dbg_abstractcmd" /\ dbg.pc = "done") =>
        LET n   == Len(trace)
            v   == trace[3].value
            err == {i - 8 : i \in v \cap {8, 9, 10}}
        IN  /\ n >= 3
            /\ trace[1].ev = "xpb_explicit_write32" /\ trace[1].reg = 64
            /\ 0 \in trace[1].data
            /\ trace[2].ev = "xpb_explicit_write32" /\ trace[2].reg = 92
            /\ trace[2].data = (Shl(Bits(call.cmdtype), 24) \cap U32)
                               \cup (Bits(call.control) \cap (0..23))
            /\ trace[3].ev = "xpb_explicit_read32" /\ trace[3].reg = 88
            /\ (12 \in v => dbg.timed_out /\ dbg.elapsed > 10000)
            /\ (~dbg.timed_out => 12 \notin v)
            /\ IF err # {}
               THEN /\ n = 4
                    /\ trace[4].ev = "xpb_explicit_write32" /\ trace[4].reg = 88
                    /\ trace[4].data = {8, 9, 10}
                    /\ Bits(dbg.code) = err
               ELSE n = 3 /\ dbg.code = 0

\* A command on a running hart: the error code 4 was read, cleared and
\* returned.
C12_ErrorCleared ==
    /\ call.op = "rfpc_dbg_abstractcmd"
    /\ dbg.pc = "done"
    /\ dbg.code = 4
    /\ Len(trace) = 4
    /\ dm.cmderr = 0

(***************************************************************************)
(* rfpc_dbg_read_reg, rfpc_dbg_write_reg, rfpc_dbg_read_memory and         *)
(* rfpc_dbg_write_memory (rfpc_debugger.rs, lines 269-495), each run to    *)
(* its end on a debug module that completes a command before the first     *)
(* poll.  A call in progress is a record x: the debug module x.d, the      *)
(* events so far x.t, x.ok (FALSE after a panic) and the value x.val of    *)
(* the step made last.  Addresses and lengths are integers; a negative     *)
(* integer stands for the u64 it wraps to.                                 *)
(***************************************************************************)
Ctx(d) == [d |-> d, t |-> <<>>, ok |-> TRUE, val |-> {}]

\* The rest of a function's body, F, run on the context v its statements so
\* far have produced.
Then(v, F(_)) == F(v)

\* The u64 word of an address.
AddrWord(a) == IF a >= 0 THEN Bits(a) ELSE wrapping_neg(Bits(0 - a))

reg_write(x, rfpc, reg, data) ==
    IF ~x.ok THEN x
    ELSE [x EXCEPT !.d = dm_write(@, reg, data, 0),
                   !.t = Append(@, DmWrite(rfpc, reg, data))]

reg_read(x, rfpc, reg) ==
    IF ~x.ok THEN x
    ELSE [x EXCEPT !.d = dm_polled(@, reg),
                   !.t = Append(@, DmRead(rfpc, reg, dm_read(x.d, reg))),
                   !.val = dm_read(x.d, reg)]

\* panic!("RFPC abstract command returned error ...") when the code in
\* x.val is nonzero (lines 273-275, 320-322, 371-373, 457-459, 487-489).
panic_on_error(x) ==
    IF x.ok /\ x.val # 0
    THEN [x EXCEPT !.ok = FALSE, !.t = Append(@, Panic("abstract_command_error"))]
    ELSE x

\* rfpc_dbg_abstractcmd (lines 205-267); x.val is the code it returns.
rfpc_dbg_abstractcmd(x, rfpc, cmdtype, control) ==
    LET w  == abstractcmd_writes(rfpc, cmdtype, control)
        x1 == reg_write(reg_write(x, rfpc, w[1].reg, w[1].data), rfpc, w[2].reg, w[2].data)
    IN  IF ~x.ok THEN x
        ELSE Then(reg_read(x1, rfpc, RISCV_DBG_ABSTRACTCS), LAMBDA x2 :
             Then(abstractcmd_clear(rfpc, x2.val), LAMBDA c :
             Then(IF c = <<>> THEN x2 ELSE reg_write(x2, rfpc, c[1].reg, c[1].data), LAMBDA x3 :
                 [x3 EXCEPT !.val = abstractcmd_code(x2.val)])))

\* rfpc_dbg_read_reg (lines 269-295); x.val is the 64-bit register value.
rfpc_dbg_read_reg(x, rfpc, reg_addr) ==
    Then(panic_on_error(rfpc_dbg_abstractcmd(x, rfpc, 0, 3276800 + (reg_addr % 65536))), LAMBDA x1 :
    Then(reg_read(x1, rfpc, RISCV_DBG_DATA0), LAMBDA x2 :
    Then(reg_read(x2, rfpc, RISCV_DBG_DATA1), LAMBDA x3 :
        IF ~x1.ok THEN x1 ELSE [x3 EXCEPT !.val = x2.val \cup Shl(x3.val, 32)])))

\* rfpc_dbg_write_reg (lines 297-323).
rfpc_dbg_write_reg(x, rfpc, reg_addr, value) ==
    LET x1 == reg_write(x, rfpc, RISCV_DBG_DATA0, AsU32(value))
        x2 == reg_write(x1, rfpc, RISCV_DBG_DATA1, Shr(value, 32))
    IN  panic_on_error(rfpc_dbg_abstractcmd(x2, rfpc, 0, 3342336 + (reg_addr % 65536)))

\* An alignment that rounds the end of the range down.
align_transaction64_floor(address, length_in_words) ==
    LET end == address + (length_in_words * 4)
    IN  <<address - (address % 8), ((end - (end % 8)) - (address - (address % 8))) \div 4>>

\* align_transaction64 (common.rs, lines 138-158).
align_transaction64(address, length_in_words) ==
    LET length_in_bytes == length_in_words * 4
        aligned_address == address - (address % 8)
        unaligned_end   == address + length_in_bytes
        aligned_end     == (unaligned_end + 7) - ((unaligned_end + 7) % 8)
    IN  <<aligned_address, (aligned_end - aligned_address) \div 4>>

\* The loop of rfpc_dbg_read_memory (lines 341-376) from word_idx on, with
\* the 64-bit words read so far; x.val is the vector mem_words at its end.
RECURSIVE read_loop(_, _, _, _, _, _)
read_loop(x, rfpc, align_addr, word_idx, word_len, mem_words) ==
    IF ~x.ok THEN x
    ELSE IF word_idx >= word_len THEN [x EXCEPT !.val = mem_words]
    ELSE LET word_addr == AddrWord(align_addr + (8 * word_idx))
             x1 == reg_write(x, rfpc, RISCV_DBG_DATA0, AsU32(word_addr))
             x2 == reg_write(x1, rfpc, RISCV_DBG_DATA1, Shr(word_addr, 32))
             x3 == reg_write(x2, rfpc, RISCV_DBG_PROGBUF0, Bits(PROGBUF_LD_A0))
             x4 == panic_on_error(rfpc_dbg_abstractcmd(x3, rfpc, 0, 3608586))
         IN  Then(rfpc_dbg_read_reg(x4, rfpc, REGNO_A0), LAMBDA x5 :
                 read_loop(x5, rfpc, align_addr, word_idx + 1, word_len,
                           Append(mem_words, x5.val)))

\* bytemuck::cast_slice from &[u64] to &[u32] on a little-endian host (line
\* 380): the low half of every word, then its high half.
RECURSIVE cast_slice(_)
cast_slice(mem_words) ==
    IF mem_words = <<>> THEN <<>>
    ELSE <<AsU32(Head(mem_words)), Shr(Head(mem_words), 32)>> \o cast_slice(Tail(mem_words))

\* rfpc_dbg_read_memory (lines 325-383); x.val is the vector it returns.
rfpc_dbg_read_memory(x, rfpc, address, length) ==
    LET al == align_transaction64(address, length)
    IN  Then(rfpc_dbg_read_reg(x, rfpc, REGNO_A0), LAMBDA x1 :
        Then(read_loop(x1, rfpc, al[1], 0, al[2] \div 2, <<>>), LAMBDA x2 :
        Then(rfpc_dbg_write_reg(x2, rfpc, REGNO_A0, x1.val), LAMBDA x3 :
            IF ~x3.ok THEN x3 ELSE [x3 EXCEPT !.val = cast_slice(x2.val)])))

\* The conversion of rfpc_dbg_write_memory from 32-bit to 64-bit words (lines
\* 424-431): chunks of two, a missing high half is 0.
RECURSIVE chunks2(_)
chunks2(new_data) ==
    IF new_data = <<>> THEN <<>>
    ELSE IF Len(new_data) = 1 THEN <<new_data[1]>>
    ELSE <<new_data[1] \cup Shl(new_data[2], 32)>> \o chunks2(Tail(Tail(new_data)))

\* The loop of rfpc_dbg_write_memory (lines 437-490) from word_idx on.
RECURSIVE write_loop(_, _, _, _, _)
write_loop(x, rfpc, align_addr, word_idx, mem_words) ==
    IF ~x.ok \/ word_idx >= Len(mem_words) THEN x
    ELSE LET data_word == mem_words[word_idx + 1]
             word_addr == AddrWord(align_addr + (8 * word_idx))
             x1 == reg_write(x, rfpc, RISCV_DBG_DATA0, AsU32(data_word))
             x2 == reg_write(x1, rfpc, RISCV_DBG_DATA1, Shr(data_word, 32))
             x3 == panic_on_error(rfpc_dbg_abstractcmd(x2, rfpc, 0, 3346443))
             x4 == reg_write(x3, rfpc, RISCV_DBG_DATA0, AsU32(word_addr))
             x5 == reg_write(x4, rfpc, RISCV_DBG_DATA1, Shr(word_addr, 32))
             x6 == reg_write(x5, rfpc, RISCV_DBG_PROGBUF0, Bits(PROGBUF_SD_A1))
             x7 == panic_on_error(rfpc_dbg_abstractcmd(x6, rfpc, 0, 3608586))
         IN  write_loop(x7, rfpc, align_addr, word_idx + 1, mem_words)

\* rfpc_dbg_write_memory (lines 385-495).  align_addr - prepend_len (line
\* 404) panics in a build with overflow checks when it is below 0 and wraps
\* otherwise.
rfpc_dbg_write_memory(x, rfpc, address, data, oc) ==
    LET al          == align_transaction64(address, Len(data))
        align_addr  == al[1]
        align_len   == al[2]
        prepend_len == IF address > align_addr THEN address - align_addr ELSE 0
        prepended   == IF address = align_addr THEN [x EXCEPT !.val = <<>>]
                       ELSE IF align_addr - prepend_len < 0 /\ oc
                       THEN [x EXCEPT !.ok = FALSE, !.t = Append(@, Panic("overflow"))]
                       ELSE rfpc_dbg_read_memory(x, rfpc, align_addr - prepend_len,
                                                 prepend_len)
    IN  Then(prepended, LAMBDA xp :
        Then(xp.val \o data, LAMBDA new1 :
        Then(IF ~xp.ok THEN xp
             ELSE IF Len(new1) < align_len
             THEN rfpc_dbg_read_memory(xp, rfpc, align_addr + (Len(new1) * 4),
                                       align_len - Len(new1))
             ELSE [xp EXCEPT !.val = <<>>], LAMBDA xa :
        Then(rfpc_dbg_read_reg(xa, rfpc, REGNO_A0), LAMBDA x1 :
        Then(rfpc_dbg_read_reg(x1, rfpc, REGNO_A1), LAMBDA x2 :
        Then(write_loop(x2, rfpc, align_addr, 0, chunks2(new1 \o xa.val)), LAMBDA x3 :
        Then(rfpc_dbg_write_reg(x3, rfpc, REGNO_A0, x1.val), LAMBDA x4 :
            IF ~xa.ok THEN xa ELSE rfpc_dbg_write_reg(x4, rfpc, REGNO_A1, x2.val))))))))

\* --- the specification of the memory operations of the debugger ---
\* At most MaxMemWrites calls of rfpc_dbg_write_memory are made.
MaxMemWrites == 1

\* A debugger call with result x runs to its end.
DbgDone(x, c, writes) ==
    /\ call = NoCall
    /\ dbg.writes + writes <= MaxMemWrites
    /\ dbg' = [writes |-> dbg.writes + writes]
    /\ dm' = x.d
    /\ trace' = x.t
    /\ call' = [c EXCEPT !.ok = x.ok, !.result = IF x.ok THEN x.val ELSE <<>>,
                         !.before = dm]
    /\ UNCHANGED <<exp_bar, expl_bar, hw, expl_csr, overflow_checks>>
    /\ UNCHANGED host_vars
    /\ UNCHANGED <<pa, vt, rsp>>

RfpcDbgReadMemory(rfpc, address, length) ==
    DbgDone(rfpc_dbg_read_memory(Ctx(dm), rfpc, address, length),
            [op |-> "rfpc_dbg_read_memory", rfpc |-> rfpc, address |-> address,
             length |-> length, ok |-> TRUE, result |-> <<>>, before |-> dm], 0)

RfpcDbgWriteMemory(rfpc, address, data) ==
    DbgDone(rfpc_dbg_write_memory(Ctx(dm), rfpc, address, data, overflow_checks),
            [op |-> "rfpc_dbg_write_memory", rfpc |-> rfpc, address |-> address,
             data |-> data, ok |-> TRUE, result |-> <<>>, before |-> dm], 1)

\* Byte addresses and word counts of the memory operations, and the data
\* written: n distinct words.
DbgAddrs == {4, 8, 12, 16, 24}
DbgLengths == 1..3
DataWords(n) == [i \in 1..n |-> Bits(512 + i)]

MemInit ==
    /\ \E oc \in BOOLEAN : DebuggerInit(oc)
    /\ dbg = [writes |-> 0]
    /\ \E h \in {"running", "halted"} : dm = DmInitOf(h, {})
    /\ pa = None
    /\ vt = None
    /\ rsp = None

MemNext ==
    \/ \E r \in Rfpcs, a \in DbgAddrs, n \in DbgLengths : RfpcDbgReadMemory(r, a, n)
    \/ \E r \in Rfpcs, a \in DbgAddrs, n \in DbgLengths :
           RfpcDbgWriteMemory(r, a, DataWords(n))
    \/ Return

SpecDbgMem == MemInit /\ [][MemNext]_vars

\* The words of the hart's memory d.mem in the 8-byte-aligned range of
\* (address, n), in ascending address order.
AlignedRange(mem, address, n) ==
    LET first == (address - (address % 8)) \div 4
        last  == ((address + (4 * n) + 7) \div 8) * 2
    IN  [i \in 1..(last - first) |-> mem[first + i - 1]]

C14_WriteMemoryEffect ==
    (call.op = "rfpc_dbg_write_memory" /\ call.ok) =>
        \A i \in MemWordIdx :
            LET k == i - (call.address \div 4)
            IN  dm.mem[i] = IF k >= 0 /\ k < Len(call.data)
                            THEN call.data[k + 1] ELSE call.before.mem[i]

(***************************************************************************)
(* performance_analyzer.rs: the configurator of the high-speed performance *)
(* analyzer of an island.  The mirror is the PerformanceAnalyzer struct;   *)
(* the peripheral is seen through the XPB writes and reads of the code.    *)
(***************************************************************************)
\* The XPB register offsets (lines 11-36) and the base address of the
\* peripheral of island Rfpc0 (line 375).
PA_CONFIG == 0
PA_FIFO_CONTROL == 16
PA_FIFO_DATA == 20
PA_TRIGGER_CONTROL == 28
PA_MASK_COMPARE == 64
PA_MASK_COMPARE_DETECT == <<96, 100, 104, 108, 112, 116, 120, 124>>
PA_TRIGGER_TRANSITION_CONFIG == <<<<128, 132>>, <<136, 140>>, <<144, 148>>, <<152, 156>>, <<160, 164>>, <<168, 172>>, <<176, 180>>, <<184, 188>>>>
PA_CAPTURE_TCAM == <<192, 196, 200, 204, 208, 212, 216, 220>>
pa_base_addr == 983040

\* The size of the FIFO in words, the literal of read_fifo (lines 932, 951).
fifo_size == 4096

\* The accessors the bitfield! macro generates for a field msb..lsb of a u32
\* (lines 41-238): the setter stores the low msb - lsb + 1 bits of the value
\* and drops the others; the getter returns the field.
set_bit_range(word, msb, lsb, value) ==
    (word \ (lsb..msb)) \cup ({i + lsb : i \in value} \cap (lsb..msb))
set_bit(word, bit, value) == IF value THEN word \cup {bit} ELSE word \ {bit}
bit_range(word, msb, lsb) == {i - lsb : i \in word \cap (lsb..msb)}

\* PerformanceAnalyzer::new (lines 360-389): the mirror after construction.
\* The loop of line 368 pushes the state-transition pairs.
PerformanceAnalyzer_new ==
    [pa_configuration |-> {},
     mask_compare_units |-> [i \in 1..16 |-> {}],
     mask_compare_detect_units |-> [i \in 1..8 |-> {}],
     tcam_capture_units |-> [i \in 1..8 |-> {}],
     state_transitions |-> [i \in 1..7 |-> <<{}, {}>>]]

\* A setter ends in a panic, which drops the mirror, or returns the mirror.
PaPanic(m, why) == [m |-> m, t |-> <<Panic(why)>>]
PaSet(m) == [m |-> m, t |-> <<>>]

\* set_pa_global_config (lines 438-490).  The enums are given by their
\* discriminants (lines 240-316).
set_pa_global_config(m, capture_decomp, trigger_decomp, trace64_decomp, decompress, hist_source, capture_mode, pc_stats, pc_action, capture_start, capture_method, capture_trigger, event_method, histogram128, histogram_shift, journalling, halt_on_inactive, enable_as_valid, valid) ==
    IF capture_trigger >= 8 THEN PaPanic(m, "capture_trigger")
    ELSE IF histogram_shift >= 8 THEN PaPanic(m, "histogram_shift")
    ELSE LET c1  == set_bit(m.pa_configuration, 0, valid)
             c2  == set_bit(c1, 1, enable_as_valid)
             c3  == set_bit(c2, 2, halt_on_inactive)
             c4  == set_bit(c3, 4, journalling)
             c5  == set_bit_range(c4, 7, 5, Bits(histogram_shift))
             c6  == set_bit(c5, 8, histogram128)
             c7  == set_bit_range(c6, 10, 9, Bits(event_method))
             c8  == set_bit_range(c7, 15, 13, Bits(capture_trigger))
             c9  == set_bit_range(c8, 17, 16, Bits(capture_method))
             c10 == set_bit_range(c9, 19, 18, Bits(capture_start))
             c11 == set_bit_range(c10, 22, 20, Bits(pc_action))
             c12 == set_bit(c11, 23, pc_stats)
             c13 == set_bit_range(c12, 25, 24, Bits(capture_mode))
             c14 == set_bit_range(c13, 27, 26, Bits(hist_source))
             c15 == set_bit(c14, 28, decompress)
             c16 == set_bit(c15, 29, trace64_decomp)
             c17 == set_bit(c16, 30, trigger_decomp)
             c18 == set_bit(c17, 31, capture_decomp)
         IN  PaSet([m EXCEPT !.pa_configuration = c18])

\* set_mask_compare (lines 552-575).  A Vec is indexed from 0, a sequence
\* from 1.
set_mask_compare(m, byte_num, mask_compare_unit_num, mask, compare, invert_output) ==
    IF byte_num >= 16 THEN PaPanic(m, "byte_num")
    ELSE IF mask_compare_unit_num >= 16 THEN PaPanic(m, "mask_compare_unit_num")
    ELSE LET u  == m.mask_compare_units[mask_compare_unit_num + 1]
             u1 == set_bit_range(u, 7, 0, Bits(compare))
             u2 == set_bit_range(u1, 15, 8, Bits(mask))
             u3 == set_bit_range(u2, 19, 16, Bits(mask_compare_unit_num))
             u4 == set_bit(u3, 24, invert_output)
             u5 == set_bit_range(u4, 31, 28, Bits(byte_num))
         IN  PaSet([m EXCEPT !.mask_compare_units[mask_compare_unit_num + 1] = u5])

\* set_mask_compare_detect (lines 613-622).
set_mask_compare_detect(m, unit_num, mask, compare) ==
    IF unit_num >= 8 THEN PaPanic(m, "unit_num")
    ELSE LET u  == m.mask_compare_detect_units[unit_num + 1]
             u1 == set_bit_range(u, 15, 0, Bits(compare))
             u2 == set_bit_range(u1, 31, 16, Bits(mask))
         IN  PaSet([m EXCEPT !.mask_compare_detect_units[unit_num + 1] = u2])

\* set_capture_tcam (lines 658-678).
set_capture_tcam(m, unit_num, capture_type, capture_source, mask, compare, invert_tcam_output) ==
    IF unit_num >= 8 THEN PaPanic(m, "unit_num")
    ELSE LET u  == m.tcam_capture_units[unit_num + 1]
             u1 == set_bit_range(u, 7, 0, Bits(mask))
             u2 == set_bit_range(u1, 15, 8, Bits(compare))
             u3 == set_bit_range(u2, 17, 16, Bits(capture_source))
             u4 == set_bit(u3, 18, invert_tcam_output)
             u5 == set_bit_range(u4, 26, 24, Bits(capture_type))
         IN  PaSet([m EXCEPT !.tcam_capture_units[unit_num + 1] = u5])

\* set_state_transition (lines 719-768).  Line 750 indexes the Vec of pairs,
\* which panics when transition_num is not below its length.
set_state_transition(m, transition_num, state_mask, mcd_mask, mcd_compare, counters_zero_mask, counters_nonzero_mask, ext_mask, invert, counter_dec_mask, counter_inc_mask, counter_restart_mask, destination_mask) ==
    IF transition_num >= 8 THEN PaPanic(m, "transition_num")
    ELSE IF counters_zero_mask >= 4 THEN PaPanic(m, "counters_zero_mask")
    ELSE IF counter_dec_mask >= 4 THEN PaPanic(m, "counter_dec_mask")
    ELSE IF counter_inc_mask >= 4 THEN PaPanic(m, "counter_inc_mask")
    ELSE IF counter_restart_mask >= 4 THEN PaPanic(m, "counter_restart_mask")
    ELSE IF transition_num >= Len(m.state_transitions)
    THEN PaPanic(m, "index_out_of_bounds")
    ELSE LET p  == m.state_transitions[transition_num + 1]
             a1 == set_bit_range(p[1], 7, 0, Bits(state_mask))
             a2 == set_bit_range(a1, 15, 8, Bits(mcd_mask))
             a3 == set_bit_range(a2, 23, 16, Bits(mcd_compare))
             a4 == set_bit_range(a3, 25, 24, Bits(counters_zero_mask))
             a5 == set_bit_range(a4, 27, 26, Bits(counters_nonzero_mask))
             a6 == set_bit(a5, 28, ext_mask)
             a7 == set_bit(a6, 29, invert)
             b1 == set_bit_range(p[2], 7, 0, Bits(destination_mask))
             b2 == set_bit_range(b1, 17, 16, Bits(counter_restart_mask))
             b3 == set_bit_range(b2, 19, 18, Bits(counter_inc_mask))
             b4 == set_bit_range(b3, 21, 20, Bits(counter_dec_mask))
         IN  PaSet([m EXCEPT !.state_transitions[transition_num + 1] = <<a7, b4>>])

\* The events of xpb_write and xpb_read of one word at an offset of the
\* peripheral, as the code calls them: island Rfpc0, xpbm false.
PaWrite(offset, data) ==
    [ev |-> "xpb_write", island |-> "Rfpc0", address |-> pa_base_addr + offset,
     data |-> data, xpbm |-> FALSE]
PaRead(offset, value) ==
    [ev |-> "xpb_read", island |-> "Rfpc0", address |-> pa_base_addr + offset,
     value |-> value, xpbm |-> FALSE]

\* apply_configuration (lines 774-830), which is all of start_pa (lines
\* 393-396): the writes in program order.
apply_configuration(m) ==
    <<PaWrite(PA_CONFIG, m.pa_configuration)>>
    \o [i \in 1..Len(m.mask_compare_units) |->
           PaWrite(PA_MASK_COMPARE, m.mask_compare_units[i])]
    \o [i \in 1..Len(m.mask_compare_detect_units) |->
           PaWrite(PA_MASK_COMPARE_DETECT[i], m.mask_compare_detect_units[i])]
    \o [k \in 1..(2 * Len(m.state_transitions)) |->
           PaWrite(PA_TRIGGER_TRANSITION_CONFIG[(k + 1) \div 2][2 - (k % 2)],
                   m.state_transitions[(k + 1) \div 2][2 - (k % 2)])]
    \o [i \in 1..Len(m.tcam_capture_units) |->
           PaWrite(PA_CAPTURE_TCAM[i], m.tcam_capture_units[i])]

\* trigger_idle, trigger_halt and trigger_start (lines 849-906): the write of
\* PA_TRIGGER_CONTROL with the command in bits 1:0.
trigger_word(trigger_command, active_states, timeout) ==
    set_bit_range(set_bit_range(set_bit_range({}, 9, 2, Bits(active_states)),
                                31, 12, Bits(timeout)),
                  1, 0, Bits(trigger_command))
trigger_idle == <<PaWrite(PA_TRIGGER_CONTROL, trigger_word(3, 0, 0))>>
trigger_halt == <<PaWrite(PA_TRIGGER_CONTROL, trigger_word(2, 0, 0))>>
trigger_start(active_states, timeout) ==
    <<PaWrite(PA_TRIGGER_CONTROL, trigger_word(1, active_states, timeout))>>

\* The k-th word the FIFO hands out during a call.
FifoWord(k) == Bits(8192 + k)

\* read_fifo (lines 930-982).  fifo_control is the word the peripheral
\* returns for PA_FIFO_CONTROL; the call has drained `drained` words before.
\* The subtraction of line 953 is on u32: it panics in a build with overflow
\* checks when write_ptr < read_ptr, and wraps otherwise.
read_fifo(m, num_words, fifo_control, drained, oc) ==
    LET ctl       == PaRead(PA_FIFO_CONTROL, fifo_control)
        read_ptr  == bit_range(fifo_control, 14, 0)
        write_ptr == bit_range(fifo_control, 29, 15)
        full      == 31 \in fifo_control /\ 4 \notin m.pa_configuration
        entries_in_fifo == IF full THEN Bits(fifo_size)
                           ELSE AsU32(Sub(write_ptr, read_ptr))
        words_to_read == IF num_words # 0 /\ Less(Bits(num_words), entries_in_fifo)
                         THEN num_words ELSE Val(entries_in_fifo)
    IN  IF num_words > fifo_size
        THEN [t |-> <<Panic("fifo_size")>>, fifo_words |-> <<>>]
        ELSE IF ~full /\ Less(write_ptr, read_ptr) /\ oc
        THEN [t |-> <<ctl, Panic("subtract_overflow")>>, fifo_words |-> <<>>]
        ELSE IF 30 \in fifo_control
        THEN [t |-> <<ctl, Panic("fifo_empty")>>, fifo_words |-> <<>>]
        ELSE [t |-> <<ctl>> \o [k \in 1..words_to_read |->
                                   PaRead(PA_FIFO_DATA, FifoWord(drained + k))],
              fifo_words |-> [k \in 1..words_to_read |-> FifoWord(drained + k)]]

(***************************************************************************)
(* rfpc_trace.rs.                                                          *)
(***************************************************************************)
\* The loop of read_trace (lines 198-203).  polls are the words the
\* peripheral returns for PA_FIFO_CONTROL at the successive read_fifo calls;
\* more is TRUE when the loop asks for a poll beyond them.
RECURSIVE drain(_, _, _, _, _)
drain(m, num_words, fifo_samples, polls, oc) ==
    IF ~(Len(fifo_samples) < num_words)
    THEN [t |-> <<>>, fifo_samples |-> fifo_samples, left |-> Len(polls), more |-> FALSE]
    ELSE LET samples == read_fifo(m, num_words - Len(fifo_samples),
                                  IF polls = <<>> THEN {} ELSE Head(polls),
                                  Len(fifo_samples), oc)
             polled  == samples.t[1].ev = "xpb_read"
         IN  IF polled /\ polls = <<>>
             THEN [t |-> <<>>, fifo_samples |-> fifo_samples, left |-> 0, more |-> TRUE]
             ELSE IF samples.t[Len(samples.t)].ev = "panic"
             THEN [t |-> samples.t, fifo_samples |-> fifo_samples,
                   left |-> IF polled THEN Len(polls) - 1 ELSE Len(polls),
                   more |-> FALSE]
             ELSE LET rest == drain(m, num_words, fifo_samples \o samples.fifo_words,
                                    Tail(polls), oc)
                  IN  [rest EXCEPT !.t = samples.t \o @]

\* read_trace (lines 188-211).
read_trace(m, num_words, polls, oc) ==
    LET d == drain(m, num_words, <<>>, polls, oc)
        t == trigger_idle \o trigger_start(0, 0) \o d.t
    IN  IF t[Len(t)].ev = "panic"
        THEN [t |-> t, fifo_samples |-> <<>>, left |-> d.left, more |-> d.more]
        ELSE [t |-> t \o trigger_halt,
              fifo_samples |-> SubSeq(d.fifo_samples, 1, Min({num_words, Len(d.fifo_samples)})),
              left |-> d.left, more |-> d.more]

\* --- the process of nfp_rfpc_trace: the mirror and the peripheral ---
\* The registers of the peripheral after the events of t: a register holds
\* the word written last to its address.
PaRegsAfter(regs, t) ==
    LET W == {i \in 1..Len(t) : t[i].ev = "xpb_write"}
        A == {t[i].address : i \in W}
    IN  [a \in (DOMAIN regs) \cup A |->
            IF a \in A THEN t[Max({i \in W : t[i].address = a})].data ELSE regs[a]]

\* A call on the PerformanceAnalyzer with result r runs to its end.  A panic
\* drops the PerformanceAnalyzer; otherwise it is in state `after`, and
\* `chained` counts the setters called on it.  All accesses go through the
\* ExpansionBar and lie in one aperture-sized window, so the aperture is
\* programmed as by the first of them.
PaDone(r, c, after) ==
    /\ call = NoCall
    /\ LET failed == r.t # <<>> /\ r.t[Len(r.t)].ev = "panic"
           access == \E i \in 1..Len(r.t) : r.t[i].ev \in {"xpb_write", "xpb_read"}
           a      == xpb_write(exp_bar, hw.cpp, "Rfpc0", Bits(pa_base_addr), 1, FALSE,
                               overflow_checks)
       IN  /\ pa' = [state |-> IF failed THEN "dead" ELSE after,
                     mirror |-> r.m,
                     chained |-> pa.chained + (IF after = "built" THEN 1 ELSE 0),
                     regs |-> PaRegsAfter(pa.regs, r.t)]
           /\ exp_bar' = IF access THEN a.bar ELSE exp_bar
           /\ hw' = IF access THEN [hw EXCEPT !.cpp = HwAfter(hw.cpp, a.trace)] ELSE hw
    /\ trace' = r.t
    /\ call' = c
    /\ UNCHANGED <<expl_bar, expl_csr, overflow_checks, dbg, dm, vt, rsp>>
    /\ UNCHANGED host_vars

\* At most MaxSetterCalls setters are chained on one PerformanceAnalyzer.
MaxSetterCalls == 2

\* The setters, chained on the PerformanceAnalyzer before start_pa as in
\* pa_trigger_on_uncomp_trace (rfpc_trace.rs lines 106-135), with the fixed
\* arguments of that function where the inputs do not vary them.
Chaining ==
    /\ pa.state = "built"
    /\ pa.chained < MaxSetterCalls

SetPaGlobalConfig(capture_trigger, histogram_shift, journalling) ==
    /\ Chaining
    /\ PaDone(set_pa_global_config(pa.mirror, FALSE, FALSE, FALSE, FALSE, 0, 0, FALSE,
                                   0, 0, 1, capture_trigger, 0, FALSE,
                                   histogram_shift, journalling, FALSE, FALSE, TRUE),
              [op |-> "set_pa_global_config", capture_trigger |-> capture_trigger,
               histogram_shift |-> histogram_shift, journalling |-> journalling],
              "built")

SetMaskCompare(byte_num, mask_compare_unit_num) ==
    /\ Chaining
    /\ PaDone(set_mask_compare(pa.mirror, byte_num, mask_compare_unit_num, 128, 8, TRUE),
              [op |-> "set_mask_compare", byte_num |-> byte_num,
               mask_compare_unit_num |-> mask_compare_unit_num],
              "built")

SetMaskCompareDetect(unit_num) ==
    /\ Chaining
    /\ PaDone(set_mask_compare_detect(pa.mirror, unit_num, 0, 15),
              [op |-> "set_mask_compare_detect", unit_num |-> unit_num], "built")

SetCaptureTcam(unit_num) ==
    /\ Chaining
    /\ PaDone(set_capture_tcam(pa.mirror, unit_num, 2, 0, 1, 3, FALSE),
              [op |-> "set_capture_tcam", unit_num |-> unit_num], "built")

\* The arguments of set_state_transition the inputs do not vary.
TransitionArgs == [state_mask |-> 1, mcd_mask |-> 255, mcd_compare |-> 16, destination_mask |-> 2]

SetStateTransition(transition_num, counters_zero_mask, counters_nonzero_mask, counter_dec_mask, counter_inc_mask, counter_restart_mask) ==
    /\ Chaining
    /\ PaDone(set_state_transition(pa.mirror, transition_num, TransitionArgs.state_mask,
                                   TransitionArgs.mcd_mask,
                                   TransitionArgs.mcd_compare, counters_zero_mask,
                                   counters_nonzero_mask, TRUE, FALSE, counter_dec_mask,
                                   counter_inc_mask, counter_restart_mask,
                                   TransitionArgs.destination_mask),
              [op |-> "set_state_transition", transition_num |-> transition_num,
               counters_zero_mask |-> counters_zero_mask,
               counters_nonzero_mask |-> counters_nonzero_mask,
               counter_dec_mask |-> counter_dec_mask,
               counter_inc_mask |-> counter_inc_mask,
               counter_restart_mask |-> counter_restart_mask],
              "built")

StartPa ==
    /\ pa.state = "built"
    /\ PaDone([m |-> pa.mirror, t |-> apply_configuration(pa.mirror)],
              [op |-> "start_pa"], "started")

ReadFifo(num_words, fifo_control) ==
    /\ pa.state = "started"
    /\ LET r == read_fifo(pa.mirror, num_words, fifo_control, 0, overflow_checks)
       IN  PaDone([m |-> pa.mirror, t |-> r.t],
                  [op |-> "read_fifo", num_words |-> num_words,
                   fifo_control |-> fifo_control, result |-> r.fifo_words],
                  "started")

\* A read_trace call that ends having polled the FIFO exactly Len(polls)
\* times.
ReadTrace(num_words, polls) ==
    /\ pa.state = "started"
    /\ LET r == read_trace(pa.mirror, num_words, polls, overflow_checks)
       IN  /\ r.left = 0
           /\ ~r.more
           /\ PaDone([m |-> pa.mirror, t |-> r.t],
                     [op |-> "read_trace", num_words |-> num_words, polls |-> polls,
                      result |-> r.fifo_samples],
                     "started")

\* --- bounds of the inputs ---
\* (capture_trigger, histogram_shift, journalling).
GlobalConfigs == {<<5, 3, FALSE>>, <<0, 0, TRUE>>, <<8, 0, FALSE>>, <<0, 8, FALSE>>}
\* (byte_num, mask_compare_unit_num).
MaskCompares == {<<11, 15>>, <<16, 0>>, <<0, 16>>}
McdUnits == {7, 8}
TcamUnits == {0, 8}
\* (transition_num, counters_zero_mask, counters_nonzero_mask,
\* counter_dec_mask, counter_inc_mask, counter_restart_mask).
StateTransitions == {<<0, 1, 2, 3, 1, 2>>, <<7, 1, 2, 3, 1, 2>>, <<8, 0, 0, 0, 0, 0>>, <<6, 4, 0, 0, 0, 0>>, <<6, 0, 5, 0, 0, 0>>, <<6, 0, 0, 4, 0, 0>>, <<6, 0, 0, 0, 4, 0>>, <<6, 0, 0, 0, 0, 4>>}

\* A PA_FIFO_CONTROL word (lines 97-104).
fifo_control_word(read_ptr, write_ptr, empty, overflow) ==
    Bits(read_ptr + (32768 * write_ptr))
    \cup (IF empty THEN {30} ELSE {}) \cup (IF overflow THEN {31} ELSE {})

\* Two words available; empty; write pointer behind the read pointer; one
\* word available with overflow set; 5000 words available.
FifoControls == {fifo_control_word(0, 2, FALSE, FALSE), fifo_control_word(5, 5, TRUE, FALSE), fifo_control_word(3, 1, FALSE, FALSE), fifo_control_word(7, 8, FALSE, TRUE), fifo_control_word(0, 5000, FALSE, FALSE)}
\* (num_words, fifo_control) of the read_fifo calls.
FifoCalls == ({1, 3, fifo_size + 1} \X FifoControls) \cup ({fifo_size} \X {fifo_control_word(0, 2, FALSE, FALSE), fifo_control_word(5, 5, TRUE, FALSE)})
TraceRequests == {0, 1, 3, fifo_size + 1}

\* read_trace polls the FIFO at most MaxPolls times.
MaxPolls == 2
RECURSIVE PollsOf(_)
PollsOf(n) ==
    IF n = 0 THEN {<<>>}
    ELSE PollsOf(n - 1) \cup {<<c>> \o s : c \in FifoControls, s \in {q \in PollsOf(n - 1) : Len(q) = n - 1}}

\* nfp_rfpc_trace starts with ExpansionBar::new and PerformanceAnalyzer::new
\* on island Rfpc0; the peripheral's registers have not been written.
PaInit ==
    /\ exp_bar = NewExpansionBar(CPP_EXPANSION_BAR_PHYSICAL_BAR, 0, {20})
    /\ expl_bar = None
    /\ hw = [cpp |-> <<{}, {}>>, trigger |-> <<{}, {}>>, data |-> <<{}, {}>>]
    /\ expl_csr = <<{}, {}, {}, {}>>
    /\ overflow_checks \in BOOLEAN
    /\ call = NoCall
    /\ trace = <<>>
    /\ HostOfOneProcess
    /\ dbg = None
    /\ dm = None
    /\ pa = [state |-> "built", mirror |-> PerformanceAnalyzer_new, chained |-> 0,
             regs |-> <<>>]
    /\ vt = None
    /\ rsp = None

PaNext ==
    \/ \E g \in GlobalConfigs : SetPaGlobalConfig(g[1], g[2], g[3])
    \/ \E u \in MaskCompares : SetMaskCompare(u[1], u[2])
    \/ \E u \in McdUnits : SetMaskCompareDetect(u)
    \/ \E u \in TcamUnits : SetCaptureTcam(u)
    \/ \E s \in StateTransitions : SetStateTransition(s[1], s[2], s[3], s[4], s[5], s[6])
    \/ StartPa
    \/ \E f \in FifoCalls : ReadFifo(f[1], f[2])
    \/ \E n \in TraceRequests, q \in PollsOf(MaxPolls) : ReadTrace(n, q)
    \/ Return

SpecPa == PaInit /\ [][PaNext]_vars

\* --- the claims about the performance analyzer ---
PaSetters == {"set_pa_global_config", "set_mask_compare", "set_mask_compare_detect", "set_capture_tcam", "set_state_transition"}

\* The number of state-transition pairs of the peripheral (lines 24-33).
NumTransitions == Len(PA_TRIGGER_TRANSITION_CONFIG)

\* C15: a setter writes no register of the peripheral.  start_pa writes the
\* global configuration first, then the 16 mask/compare units, the 8
\* mask-compare-detect units, the 8 state-transition pairs and the 8 TCAM
\* capture units of the mirror, in that order and each to an XPB address of
\* its own, so that afterwards the peripheral holds at the address of each
\* write the word of the mirror written there.
C15_StartPaWritesMirror ==
    /\ call.op \in PaSetters =>
           /\ \A i \in 1..Len(trace) : trace[i].ev # "xpb_write"
           /\ pa.regs = <<>>
    /\ call.op = "start_pa" =>
           LET m == pa.mirror
           IN  /\ \A i \in 1..Len(trace) : trace[i].ev = "xpb_write"
               /\ \A i, j \in 1..Len(trace) :
                      i # j => trace[i].address # trace[j].address
               /\ \A i \in 1..Len(trace) :
                      /\ trace[i].address \in DOMAIN pa.regs
                      /\ pa.regs[trace[i].address] = trace[i].data
               /\ Len(trace) = 1 + 16 + 8 + (2 * NumTransitions) + 8
               /\ trace[1] = PaWrite(PA_CONFIG, m.pa_configuration)
               /\ \A i \in 1..16 : trace[1 + i].data = m.mask_compare_units[i]
               /\ \A i \in 1..8 :
                      trace[17 + i] = PaWrite(PA_MASK_COMPARE_DETECT[i],
                                              m.mask_compare_detect_units[i])
               /\ \A i \in 1..NumTransitions, j \in 1..2 :
                      trace[25 + (2 * (i - 1)) + j]
                          = PaWrite(PA_TRIGGER_TRANSITION_CONFIG[i][j],
                                    m.state_transitions[i][j])
               /\ \A i \in 1..8 :
                      trace[25 + (2 * NumTransitions) + i]
                          = PaWrite(PA_CAPTURE_TCAM[i], m.tcam_capture_units[i])

\* The two words of a state-transition pair with the given fields (lines
\* 201-232).
TransitionWords(state_mask, mcd_mask, mcd_compare, counters_zero_mask, counters_nonzero_mask, ext_mask, invert, counter_dec_mask, counter_inc_mask, counter_restart_mask, destination_mask) ==
    << Bits(state_mask + (256 * mcd_mask) + (65536 * mcd_compare)
            + (16777216 * counters_zero_mask) + (67108864 * counters_nonzero_mask))
         \cup (IF ext_mask THEN {28} ELSE {}) \cup (IF invert THEN {29} ELSE {}),
       Bits(destination_mask + (65536 * counter_restart_mask)
            + (262144 * counter_inc_mask) + (1048576 * counter_dec_mask)) >>

\* The masks of the set_state_transition call fit their 2-bit fields.
MasksInRange ==
    /\ call.counters_zero_mask < 4
    /\ call.counters_nonzero_mask < 4
    /\ call.counter_dec_mask < 4
    /\ call.counter_inc_mask < 4
    /\ call.counter_restart_mask < 4

\* C16: the mirror holds 8 state-transition pairs.  set_state_transition
\* with transition_num in 0..7 and masks in range succeeds and records the
\* given values in that pair, and start_pa writes each of the 8 pairs to the
\* two registers of its transition.
C16_EightTransitionPairs ==
    /\ Len(pa.mirror.state_transitions) = NumTransitions
    /\ (call.op = "set_state_transition" /\ call.transition_num \in 0..7 /\ MasksInRange) =>
           /\ ~Rejected
           /\ pa.mirror.state_transitions[call.transition_num + 1]
                  = TransitionWords(TransitionArgs.state_mask, TransitionArgs.mcd_mask,
                                    TransitionArgs.mcd_compare,
                                    call.counters_zero_mask,
                                    call.counters_nonzero_mask, TRUE, FALSE,
                                    call.counter_dec_mask, call.counter_inc_mask,
                                    call.counter_restart_mask,
                                    TransitionArgs.destination_mask)
    /\ call.op = "start_pa" =>
           \A i \in 1..NumTransitions, j \in 1..2 :
               \E k \in 1..Len(trace) :
                   trace[k] = PaWrite(PA_TRIGGER_TRANSITION_CONFIG[i][j],
                                      pa.mirror.state_transitions[i][j])

\* C17: every setter rejects an argument that does not fit its field:
\* set_state_transition each of the five counter masks above 3,
\* set_pa_global_config capture_trigger and histogram_shift above 7, the
\* other setters a unit or byte number out of range; and a call that is not
\* rejected has stored the given value in the mirror, not a truncation of it.
C17_SettersValidateWidths ==
    /\ call.op = "set_state_transition" =>
           /\ ~MasksInRange => Rejected
           /\ ~Rejected =>
                  LET p == pa.mirror.state_transitions[call.transition_num + 1]
                  IN  /\ Val(bit_range(p[1], 25, 24)) = call.counters_zero_mask
                      /\ Val(bit_range(p[1], 27, 26)) = call.counters_nonzero_mask
                      /\ Val(bit_range(p[2], 17, 16)) = call.counter_restart_mask
                      /\ Val(bit_range(p[2], 19, 18)) = call.counter_inc_mask
                      /\ Val(bit_range(p[2], 21, 20)) = call.counter_dec_mask
    /\ call.op = "set_pa_global_config" =>
           /\ (call.capture_trigger >= 8 \/ call.histogram_shift >= 8) => Rejected
           /\ ~Rejected =>
                  /\ Val(bit_range(pa.mirror.pa_configuration, 15, 13))
                         = call.capture_trigger
                  /\ Val(bit_range(pa.mirror.pa_configuration, 7, 5))
                         = call.histogram_shift
    /\ call.op = "set_mask_compare" =>
           ((call.byte_num >= 16 \/ call.mask_compare_unit_num >= 16) => Rejected)
    /\ call.op \in {"set_mask_compare_detect", "set_capture_tcam"} =>
           (call.unit_num >= 8 => Rejected)

\* The reads of PA_FIFO_DATA among the events of t, in program order.
IsFifoDataRead(e) == e.ev = "xpb_read" /\ e.address = pa_base_addr + PA_FIFO_DATA
FifoDataReads(t) == SelectSeq(t, IsFifoDataRead)

\* C18: read_fifo(n) with 1 <= n <= 4096 and the empty flag clear reads
\* PA_FIFO_DATA exactly min(n, available) times and returns the words read,
\* in order; available is write_ptr - read_ptr (on u32), or 4096 when
\* overflow is set and journalling is off in the mirror.  With empty set or
\* n > 4096 it fails and has not read PA_FIFO_DATA.
C18_ReadFifoCount ==
    call.op = "read_fifo" =>
        LET c         == call.fifo_control
            n         == call.num_words
            available == IF 31 \in c /\ 4 \notin pa.mirror.pa_configuration
                         THEN Bits(fifo_size)
                         ELSE AsU32(Sub(bit_range(c, 29, 15), bit_range(c, 14, 0)))
            reads     == FifoDataReads(trace)
        IN  IF n > fifo_size \/ 30 \in c
            THEN Rejected /\ reads = <<>>
            ELSE /\ ~Rejected
                 /\ Len(reads) = (IF Less(Bits(n), available) THEN n ELSE Val(available))
                 /\ call.result = [i \in 1..Len(reads) |-> reads[i].value]

\* A write of PA_TRIGGER_CONTROL with the given command in bits 1:0.
IsTrigger(e, command) ==
    /\ e.ev = "xpb_write"
    /\ e.address = pa_base_addr + PA_TRIGGER_CONTROL
    /\ bit_range(e.data, 1, 0) = Bits(command)

\* C19: read_trace(n) writes the trigger commands idle (3), start (1) and
\* halt (2) in this order, all its accesses of the FIFO lie between the start
\* and the halt, and it returns exactly n words: the first n words read from
\* PA_FIFO_DATA, in order.
C19_ReadTraceOrder ==
    call.op = "read_trace" =>
        LET k     == Len(trace)
            reads == FifoDataReads(trace)
        IN  /\ ~Rejected
            /\ k >= 3
            /\ IsTrigger(trace[1], 3)
            /\ IsTrigger(trace[2], 1)
            /\ IsTrigger(trace[k], 2)
            /\ \A i \in 3..(k - 1) : trace[i].ev = "xpb_read"
            /\ Len(call.result) = call.num_words
            /\ Len(reads) >= call.num_words
            /\ call.result = [i \in 1..call.num_words |-> reads[i].value]

(***************************************************************************)
(* virtual_terminal.rs: the host side of the virtual terminal, a block of  *)
(* island memory that the software on an RFPC core locks and fills.        *)
(***************************************************************************)
\* The offsets of the lock, metadata and length words and of the data field
\* (lines 15-18).
LOCK_OFFSET == 0
METADATA_OFFSET == 4
LENGTH_OFFSET == 8
DATA_OFFSET == 12

\* CppIsland::from_id (cpp_bus.rs lines 30-50): the island of an id below 16;
\* every other id panics.
CppIslandNames == <<"Local", "ChipExec", "Pcie0", "Pcie1", "Nbi0", "Nbi1", "Nbi2", "Nbi3", "Emu0", "Rfpc0", "Rfpc1", "Rfpc2", "Rfpc3", "Rfpc4", "Rfpc5", "Rfpc6">>
from_id(id) == CppIslandNames[id + 1]

\* VirtualTerminal::new (lines 60-73): the memory type of the island.
vt_mem_type(island) == IF island = "Emu0" THEN "Emem" ELSE "Ctm"

\* The read of the lock word by VirtualTerminal::is_locked (lines 77-84).
read_lock(bar, w, island, address, oc) ==
    mem_read(bar, w, island, vt_mem_type(island), "Atomic32",
             Add(address, Bits(LOCK_OFFSET)), 1, oc)

\* The read of the metadata word (lines 95-101) after r1, the read of the
\* lock word; w is the content of the BAR-config CSRs before both.
read_metadata(r1, w, island, address, oc) ==
    mem_read(r1.bar, HwAfter(w, r1.trace), island, vt_mem_type(island), "Atomic32",
             Add(address, Bits(METADATA_OFFSET)), 1, oc)

\* The holder decoded from the two words read (lines 91-125); r1 and r2 are
\* the reads of the lock word and of the metadata word.
decode_holder(r1, r2, lock_word, meta_word) ==
    LET meta_island == bit_range(meta_word, 15, 8)
        group       == Val(bit_range(meta_word, 7, 3)) % 4
        cluster     == group \div 4
        both        == [bar |-> r2.bar, trace |-> r1.trace \o r2.trace, holder |-> None]
    IN  IF ~(lock_word = {})
        THEN [bar |-> r1.bar, trace |-> r1.trace, holder |-> None]
        ELSE IF meta_island = {} \/ BitAnd(meta_island, Bits(768)) # {}
        THEN both
        ELSE IF Val(meta_island) >= Len(CppIslandNames)
        THEN [both EXCEPT !.trace = @ \o <<Panic("invalid_island_id")>>]
        ELSE [both EXCEPT !.holder = Some([island |-> from_id(Val(meta_island)),
                                           cluster |-> cluster, group |-> group,
                                           core |-> Val(bit_range(meta_word, 2, 0))])]

\* VirtualTerminal::holder with is_locked (lines 76-125).  lock_word and
\* meta_word are the words the two mem_read calls return; the metadata is
\* read only when the lock word is 0.
holder_after(r1, w, island, address, lock_word, meta_word, oc) ==
    decode_holder(r1, read_metadata(r1, w, island, address, oc), lock_word, meta_word)

holder(bar, w, island, address, lock_word, meta_word, oc) ==
    holder_after(read_lock(bar, w, island, address, oc), w, island, address,
                 lock_word, meta_word, oc)

\* The last event of a trace is a panic.
panicked(t) == t # <<>> /\ t[Len(t)].ev = "panic"

\* VirtualTerminal::data_available (lines 129-144): len is the word it
\* returns, the length word when there is a holder and 0 otherwise.
data_available(bar, w, island, address, lock_word, meta_word, length_word, oc) ==
    Then(holder(bar, w, island, address, lock_word, meta_word, oc), LAMBDA h :
        IF h.holder = None
        THEN [bar |-> h.bar, trace |-> h.trace, holder |-> h.holder, len |-> {}]
        ELSE Then(mem_read(h.bar, HwAfter(w, h.trace), island, vt_mem_type(island),
                           "Atomic32", Add(address, Bits(LENGTH_OFFSET)), 1, oc), LAMBDA r :
                 [bar |-> r.bar, trace |-> h.trace \o r.trace, holder |-> h.holder,
                  len |-> IF panicked(r.trace) THEN {} ELSE length_word]))

\* The word at index k of the data field: its four bytes are 4k+1 .. 4k+4.
DataWord(k) ==
    Bits(((4 * k) + 1) + (256 * ((4 * k) + 2)) + (65536 * ((4 * k) + 3))
         + (16777216 * ((4 * k) + 4)))

\* bytemuck::cast_slice from &[u32] to &[u8] on a little-endian host (line
\* 176): the four bytes of every word, the lowest first.
RECURSIVE cast_slice_u8(_)
cast_slice_u8(data_words) ==
    IF data_words = <<>> THEN <<>>
    ELSE <<Val(bit_range(Head(data_words), 7, 0)), Val(bit_range(Head(data_words), 15, 8)),
           Val(bit_range(Head(data_words), 23, 16)), Val(bit_range(Head(data_words), 31, 24))>>
         \o cast_slice_u8(Tail(data_words))

\* VirtualTerminal::read_bytes (lines 147-180): bytes is the vector it
\* returns, acked whether it has written 0 to the length word.  mem_read is
\* called with data_len as its number of words (line 162).
read_bytes(bar, w, island, address, lock_word, meta_word, length_word, oc) ==
    Then(data_available(bar, w, island, address, lock_word, meta_word, length_word, oc), LAMBDA a :
        IF panicked(a.trace) \/ a.len = {}
        THEN [bar |-> a.bar, trace |-> a.trace, holder |-> a.holder, bytes |-> <<>>,
              acked |-> FALSE]
        ELSE Then(mem_read(a.bar, HwAfter(w, a.trace), island, vt_mem_type(island),
                           "Bulk32", Add(address, Bits(DATA_OFFSET)), Val(a.len), oc), LAMBDA d :
             IF panicked(d.trace)
             THEN [bar |-> d.bar, trace |-> a.trace \o d.trace, holder |-> a.holder,
                   bytes |-> <<>>, acked |-> FALSE]
             ELSE Then(mem_write(d.bar, HwAfter(w, a.trace \o d.trace), island,
                                 vt_mem_type(island), "Atomic32",
                                 Add(address, Bits(LENGTH_OFFSET)), 1, oc), LAMBDA k :
                  [bar |-> k.bar, trace |-> a.trace \o d.trace \o k.trace,
                   holder |-> a.holder,
                   bytes |-> IF panicked(k.trace) THEN <<>>
                             ELSE cast_slice_u8([i \in 1..Val(a.len) |-> DataWord(i - 1)]),
                   acked |-> ~panicked(k.trace)])))

\* --- the process of nfp_virt_term ---
\* The terminal of the process: its island, and the default address of
\* nfp_virt_term (nfp_virt_term.rs line 35).
VtIsland == "Rfpc0"
VtAddress == Bits(261876)

\* A call of holder with result r runs to its end.
HolderDone(r) ==
    CppDone(r, [op |-> "holder", lock |-> vt.lock, metadata |-> vt.metadata,
                result |-> r.holder])

\* nfp_virt_term asks for the holder (nfp_virt_term.rs line 71).
Holder ==
    HolderDone(holder(exp_bar, hw.cpp, VtIsland, VtAddress, vt.lock, vt.metadata,
                      overflow_checks))

\* A call of read_bytes with result r runs to its end; the length word is 0
\* once it has been acknowledged.
ReadBytesDone(r) ==
    /\ call = NoCall
    /\ exp_bar' = r.bar
    /\ hw' = [hw EXCEPT !.cpp = HwAfter(hw.cpp, r.trace)]
    /\ trace' = r.trace
    /\ call' = [op |-> "read_bytes", holder |-> r.holder, length |-> vt.length,
                result |-> r.bytes]
    /\ vt' = IF r.acked THEN [vt EXCEPT !.length = {}] ELSE vt
    /\ UNCHANGED <<expl_bar, expl_csr, overflow_checks>>
    /\ UNCHANGED host_vars
    /\ UNCHANGED <<dbg, dm, pa, rsp>>

\* nfp_virt_term reads the pending data (nfp_virt_term.rs, through
\* read_string).
ReadBytes ==
    ReadBytesDone(read_bytes(exp_bar, hw.cpp, VtIsland, VtAddress, vt.lock, vt.metadata,
                             vt.length, overflow_checks))

\* The software on the chip changes the lock and metadata words between two
\* calls of the host.
ChipWrites(lock_word, meta_word) ==
    /\ call = NoCall
    /\ vt' = [vt EXCEPT !.lock = lock_word, !.metadata = meta_word]
    /\ vt' # vt
    /\ UNCHANGED <<exp_bar, expl_bar, hw, expl_csr, overflow_checks, call, trace>>
    /\ UNCHANGED host_vars
    /\ UNCHANGED <<dbg, dm, pa, rsp>>

\* The software on the chip fills the data field and announces length_bytes
\* bytes in the length word.
ChipSends(length_bytes) ==
    /\ call = NoCall
    /\ vt' = [vt EXCEPT !.length = Bits(length_bytes)]
    /\ vt' # vt
    /\ UNCHANGED <<exp_bar, expl_bar, hw, expl_csr, overflow_checks, call, trace>>
    /\ UNCHANGED host_vars
    /\ UNCHANGED <<dbg, dm, pa, rsp>>

\* --- bounds of the inputs ---
\* A metadata word (lines 20-30) with the given island, group and core
\* fields and manual_lock bit.
VtmMetadata(island, group, core, manual_lock) ==
    Bits(core + (8 * group) + (256 * island)) \cup (IF manual_lock THEN {31} ELSE {})
VtLockWords == {{}, {0}}
VtLengths == {1, 3, 4}
VtMetadataWords == {VtmMetadata(i, g, c, l) : i \in {0, 9, 15, 16, 255}, g \in {0, 3, 5, 31}, c \in {0, 7}, l \in BOOLEAN}

\* nfp_virt_term starts with ExpansionBar::new and VirtualTerminal::new; the
\* terminal has not been used: it is unlocked, or locked with no metadata.
VtInit ==
    /\ exp_bar = NewExpansionBar(CPP_EXPANSION_BAR_PHYSICAL_BAR, 0, {20})
    /\ expl_bar = None
    /\ hw = [cpp |-> <<{}, {}>>, trigger |-> <<{}, {}>>, data |-> <<{}, {}>>]
    /\ expl_csr = <<{}, {}, {}, {}>>
    /\ overflow_checks = FALSE
    /\ call = NoCall
    /\ trace = <<>>
    /\ HostOfOneProcess
    /\ dbg = None
    /\ dm = None
    /\ pa = None
    /\ rsp = None
    /\ \E l \in VtLockWords : vt = [lock |-> l, metadata |-> {}, length |-> {}]

VtNext ==
    \/ Holder
    \/ \E l \in VtLockWords, w \in VtMetadataWords : ChipWrites(l, w)
    \/ Return

SpecVt == VtInit /\ [][VtNext]_vars

\* The process reads the data the software on the chip sends: the terminal
\* is free or held by a core of an island, with a plausible or an implausible
\* island field.
VtSenders == {VtmMetadata(0, 0, 0, FALSE), VtmMetadata(9, 3, 7, FALSE), VtmMetadata(15, 5, 0, TRUE), VtmMetadata(16, 0, 0, FALSE)}

VtReadNext ==
    \/ ReadBytes
    \/ \E l \in VtLockWords, w \in VtSenders : ChipWrites(l, w)
    \/ \E n \in VtLengths : ChipSends(n)
    \/ Return

SpecVtRead == VtInit /\ [][VtReadNext]_vars

\* C20: holder returns none when the lock word is nonzero and when the
\* island field of the metadata word is 0 or has one of the bits of 0x300
\* set; in every other case it returns the identity with the island of the
\* island field, cluster = group field / 4, group = group field % 4 and the
\* core field.
C20_HolderIdentity ==
    call.op = "holder" =>
        LET island_field == bit_range(call.metadata, 15, 8)
            group_field  == Val(bit_range(call.metadata, 7, 3))
        IN  /\ ~Rejected
            /\ IF call.lock # {} \/ island_field = {}
                  \/ BitAnd(island_field, Bits(768)) # {}
               THEN call.result = None
               ELSE call.result
                        = Some([island |-> from_id(Val(island_field)),
                                cluster |-> group_field \div 4,
                                group |-> group_field % 4,
                                core |-> Val(bit_range(call.metadata, 2, 0))])

\* An access of the mapped aperture at the given offset of the terminal.
VtAccess(e, op, offset) ==
    /\ e.ev = "mmap"
    /\ e.op = op
    /\ Add(e.base, e.offset) = Add(VtAddress, Bits(offset))

\* C21: read_bytes returns an empty result and writes nothing when there is
\* no holder or the length word is 0; otherwise it reads the data field
\* first and only afterwards writes the length word, which is 0 from then
\* on, and it returns as many bytes as the length word announced.
C21_ReadBytes ==
    call.op = "read_bytes" =>
        IF call.holder = None \/ call.length = {}
        THEN /\ call.result = <<>>
             /\ \A i \in 1..Len(trace) : ~(trace[i].ev = "mmap" /\ trace[i].op = "write")
             /\ vt.length = call.length
        ELSE /\ \E i, j \in 1..Len(trace) :
                    /\ i < j
                    /\ VtAccess(trace[i], "read", DATA_OFFSET)
                    /\ VtAccess(trace[j], "write", LENGTH_OFFSET)
                    /\ \A n \in 1..Len(trace) :
                           (trace[n].ev = "mmap" /\ trace[n].op = "write") => n = j
             /\ vt.length = {}
             /\ Len(call.result) = Val(call.length)

(***************************************************************************)
(* gdb_server_stub.rs: the GDB Remote Serial Protocol server.  A byte is   *)
(* an integer 0..255 and a packet, a reply and a table key are sequences   *)
(* of bytes.                                                               *)
(***************************************************************************)
\* The printable ASCII characters, from code 32 on; those that a string
\* cannot hold as they are go by their names.
AsciiChars == <<" ", "!", "quote", "#", "$", "%", "&", "apostrophe", "(", ")", "*", "+", ",", "-", ".", "/", "0", "1", "2", "3", "4", "5", "6", "7", "8", "9", ":", ";", "<", "=", ">", "?", "@", "A", "B", "C", "D", "E", "F", "G", "H", "I", "J", "K", "L", "M", "N", "O", "P", "Q", "R", "S", "T", "U", "V", "W", "X", "Y", "Z", "[", "backslash", "]", "^", "_", "backtick", "a", "b", "c", "d", "e", "f", "g", "h", "i", "j", "k", "l", "m", "n", "o", "p", "q", "r", "s", "t", "u", "v", "w", "x", "y", "z", "{", "|", "}", "~">>

\* The byte of a character, and the bytes of a text given as its characters
\* (b"...", "...".to_string()).
Ord(c) == 31 + (CHOOSE i \in 1..Len(AsciiChars) : AsciiChars[i] = c)
Text(chars) == [i \in 1..Len(chars) |-> Ord(chars[i])]

\* position(|&b| b == byte): the index, from 0, of the first such byte of a
\* slice, None when there is none.
position(bytes, byte) ==
    IF \E i \in 1..Len(bytes) : bytes[i] = byte
    THEN Some((CHOOSE i \in 1..Len(bytes) :
                   bytes[i] = byte /\ \A j \in 1..(i - 1) : bytes[j] # byte) - 1)
    ELSE None

\* The slice bytes[from..to] of Rust: indices from 0, the end excluded.
Slice(bytes, from, to) == SubSeq(bytes, from + 1, to)

\* The value of a hexadecimal digit (char::to_digit(16)), -1 for every other
\* byte.
to_digit16(b) ==
    IF b \in 48..57 THEN b - 48
    ELSE IF b \in 65..70 THEN b - 55
    ELSE IF b \in 97..102 THEN b - 87
    ELSE 0 - 1

\* The character of a digit value in {:x} formatting.
HexChar(v) == IF v < 10 THEN 48 + v ELSE 87 + v

\* u8::from_str_radix(text, 16) and u64::from_str_radix(text, 16): Some
\* word (as its set of bits) or None (Err).  One leading '+' is accepted;
\* an empty text, a text of a sign only, a byte that is no hexadecimal digit
\* and a value that does not fit the width are errors.
RECURSIVE HexBits(_)
HexBits(digits) ==
    IF digits = <<>> THEN {}
    ELSE LET v == to_digit16(digits[Len(digits)])
         IN  {i \in 0..3 : (v \div (2 ^ i)) % 2 = 1}
             \cup {i + 4 : i \in HexBits(SubSeq(digits, 1, Len(digits) - 1))}
from_str_radix16(text, width) ==
    LET digits == IF text # <<>> /\ text[1] = 43 THEN Tail(text) ELSE text
    IN  IF digits = <<>> \/ \E i \in 1..Len(digits) : to_digit16(digits[i]) < 0
        THEN None
        ELSE IF \E i \in HexBits(digits) : i >= width THEN None
        ELSE Some(HexBits(digits))

\* String::from_utf8_lossy for the bytes the model sends: an ASCII byte is a
\* character of one byte, every byte from 128 on (none of them is part of a
\* valid sequence here) becomes U+FFFD, a character of three bytes.
from_utf8_lossy(bytes) ==
    [i \in 1..Len(bytes) |-> IF bytes[i] < 128 THEN bytes[i] ELSE 65533]

\* calculate_rsp_checksum (lines 512-514): the fold of wrapping_add over the
\* bytes, from 0.  wrapping_add being associative, the sum is taken by
\* halves, which keeps the recursion shallow on a long reply.
RECURSIVE calculate_rsp_checksum(_)
calculate_rsp_checksum(data) ==
    IF data = <<>> THEN 0
    ELSE IF Len(data) = 1 THEN data[1] % 256
    ELSE (calculate_rsp_checksum(SubSeq(data, 1, Len(data) \div 2))
          + calculate_rsp_checksum(SubSeq(data, (Len(data) \div 2) + 1, Len(data)))) % 256

\* format_rsp_packet (lines 617-631).
format_rsp_packet(response) ==
    LET checksum == calculate_rsp_checksum(response)
    IN  <<Ord("$")>> \o response \o <<Ord("#")>>
        \o <<HexChar(checksum \div 16), HexChar(checksum % 16)>>

\* --- the command table and the handlers ---
\* The entries of cmd_resp_map (RspServer::new, lines 51-101): Some(Ascii),
\* Some(NoArg), Some(WithArg) or None.
Ascii(chars) == Some([kind |-> "Ascii", text |-> Text(chars)])
NoArg(func) == Some([kind |-> "NoArg", func |-> func])
WithArg(func) == Some([kind |-> "WithArg", func |-> func])
cmd_resp_map ==
    (Text(<<"!">>) :> NoArg("cmd_not_supported"))
    @@ (Text(<<"?">>) :> Ascii(<<"S", "1", "2">>))
    @@ (Text(<<"c">>) :> None)
    @@ (Text(<<"D">>) :> None)
    @@ (Text(<<"Q", "S", "t", "a", "r", "t", "N", "o", "A", "c", "k", "M", "o", "d", "e">>) :> NoArg("toggle_ack"))
    @@ (Text(<<"q", "C">>) :> Ascii(<<"-", "1">>))
    @@ (Text(<<"q", "O", "f", "f", "s", "e", "t", "s">>) :> NoArg("load_offsets"))
    @@ (Text(<<"q", "S", "u", "p", "p", "o", "r", "t", "e", "d">>) :> WithArg("supported_features"))
    @@ (Text(<<"q", "A", "t", "t", "a", "c", "h", "e", "d">>) :> Ascii(<<"1">>))
    @@ (Text(<<"H">>) :> Ascii(<<"l">>))
    @@ (Text(<<"g">>) :> NoArg("read_gprs"))
    @@ (Text(<<"p">>) :> Ascii(<<"0", "0", "0", "0", "0", "0", "0", "0", "0", "0", "0", "0", "0", "0", "0", "0">>))
    @@ (Text(<<"P">>) :> WithArg("write_csr"))
    @@ (Text(<<"m">>) :> None)
    @@ (<<3>> :> None)
    @@ (Text(<<"k">>) :> None)
    @@ (Text(<<"C">>) :> None)
    @@ (Text(<<"v", "M", "u", "s", "t", "R", "e", "p", "l", "y", "E", "m", "p", "t", "y">>) :> NoArg("cmd_not_supported"))
    @@ (Text(<<"X">>) :> WithArg("load_segment"))

\* The RspServer as RspServer::new returns it (lines 103-127): the features
\* of the server, none of the client, acknowledgements enabled.
RspServer_new ==
    [server_kv_support |-> <<Text(<<"P", "a", "c", "k", "e", "t", "S", "i", "z", "e", "=", "1", "0", "0", "0", "0", "0">>)>>,
     server_v_support |-> <<Text(<<"q", "M", "e", "m", "o", "r", "y", "R", "e", "a", "d", "+">>), Text(<<"s", "w", "b", "r", "e", "a", "k", "+">>)>>,
     client_kv_support |-> {},
     client_v_support |-> <<>>,
     disable_ack |-> FALSE]

\* The hart of the server (lines 148-153 and 294-299).
GdbRfpc == [island |-> "Rfpc0", cluster |-> 0, group |-> 0, core |-> 0]

\* What a handler leaves behind.  m is the machine the server works on: s,
\* the RspServer; bar and w, the ExpansionBar and its BAR-config CSRs; d, the
\* debug module of the hart; oc, whether the build checks overflow.  t are
\* the events of the handler on the chip, a panic being the last, and text
\* the String it returns.
Ret(m, t, text) == [m |-> m, t |-> t, text |-> text]

\* cmd_not_supported (lines 135-137).
cmd_not_supported(m) == Ret(m, <<>>, <<>>)

\* A toggle_ack that switches the acknowledgements on again when they are
\* off.
toggle_ack_flip(m) ==
    Ret([m EXCEPT !.s.disable_ack = ~@], <<>>, Text(<<"O", "K">>))

\* toggle_ack (lines 445-450).
toggle_ack(m) ==
    Ret([m EXCEPT !.s.disable_ack = TRUE], <<>>, Text(<<"O", "K">>))

\* load_offsets (lines 388-390).
load_offsets(m) ==
    Ret(m, <<>>, Text(<<"T", "e", "x", "t", "=", "0", "0", "0", ";", "D", "a", "t", "a", "=", "0", "0", "0", ";", "B", "s", "s", "=", "0", "0", "0">>))

\* u64::swap_bytes and format!("{:016x}", value).
swap_bytes(word) == {(8 * (7 - (i \div 8))) + (i % 8) : i \in word}
Nibble(word, n) == HexChar(Val(bit_range(word, (4 * n) + 3, 4 * n)))
hex016(word) ==
    << Nibble(word, 15), Nibble(word, 14), Nibble(word, 13), Nibble(word, 12),
       Nibble(word, 11), Nibble(word, 10), Nibble(word, 9), Nibble(word, 8),
       Nibble(word, 7), Nibble(word, 6), Nibble(word, 5), Nibble(word, 4),
       Nibble(word, 3), Nibble(word, 2), Nibble(word, 1), Nibble(word, 0) >>

\* The registers read_gprs reads (lines 156-286): reg_addr of X0 .. X31 and
\* of Dpc (rfpc.rs lines 48-83 and 170).
GdbRegs == [i \in 1..33 |-> IF i <= 32 THEN 4095 + i ELSE 1969]

\* One register of read_gprs (lines 156-158): x.val is the text pushed to the
\* String gprs.
read_reg_hex(x, reg_addr) ==
    Then(rfpc_dbg_read_reg(x, GdbRfpc, reg_addr), LAMBDA x1 :
        IF ~x1.ok THEN x1 ELSE [x1 EXCEPT !.val = hex016(swap_bytes(x1.val))])

\* read_gprs (lines 146-290) from the register at index i on, x being the
\* call after the register before it and gprs the String before that.
RECURSIVE read_regs(_, _, _)
read_regs(x, i, gprs) ==
    IF ~x.ok THEN x
    ELSE IF i > Len(GdbRegs) THEN [x EXCEPT !.val = gprs \o x.val]
    ELSE read_regs(read_reg_hex(x, GdbRegs[i]), i + 1, gprs \o x.val)
read_gprs(m) ==
    Then(read_regs([Ctx(m.d) EXCEPT !.val = <<>>], 1, <<>>), LAMBDA x :
        Ret([m EXCEPT !.d = x.d], x.t, IF x.ok THEN x.val ELSE <<>>))

\* The result of expect and unwrap on None or Err.
HandlerPanic(m, why) == Ret(m, <<Panic(why)>>, <<>>)

\* write_csr (lines 292-315).
write_csr_at(m, packet, eq) ==
    Then(from_str_radix16(from_utf8_lossy(Slice(packet, 1, eq)), 8), LAMBDA address :
    Then(from_str_radix16(from_utf8_lossy(Slice(packet, eq + 1, Len(packet))), 64), LAMBDA value :
        IF address = None THEN HandlerPanic(m, "Failed to parse address as u8")
        ELSE IF value = None THEN HandlerPanic(m, "Failed to parse value as u64")
        ELSE IF address[1] = Bits(32)
        THEN Then(rfpc_dbg_write_reg(Ctx(m.d), GdbRfpc, 1969, swap_bytes(value[1])), LAMBDA x :
                 Ret([m EXCEPT !.d = x.d], x.t, Text(<<"O", "K">>)))
        ELSE Ret(m, <<>>, Text(<<"O", "K">>))))
write_csr(m, packet) ==
    Then(position(packet, Ord("=")), LAMBDA equals_index :
        IF equals_index = None THEN HandlerPanic(m, "unwrap_on_none")
        ELSE IF equals_index[1] < 1 THEN HandlerPanic(m, "slice_index")
        ELSE write_csr_at(m, packet, equals_index[1]))

\* bytemuck::cast_slice from &[u8] to &[u32] on a little-endian host (line
\* 368).
RECURSIVE cast_slice_u32(_)
cast_slice_u32(bytes) ==
    IF Len(bytes) < 4 THEN <<>>
    ELSE <<Bits(bytes[1]) \cup Shl(Bits(bytes[2]), 8) \cup Shl(Bits(bytes[3]), 16)
           \cup Shl(Bits(bytes[4]), 24)>>
         \o cast_slice_u32(SubSeq(bytes, 5, Len(bytes)))

\* load_segment (lines 329-383).  The segment is written with mem_write as
\* the words of all the bytes after the colon; cast_slice panics when these
\* are not a whole number of words, and on the dangling pointer of an empty
\* vector, which is not aligned to a word.
load_segment_write(m, address, length, packet_data) ==
    IF address = None \/ length = None
    THEN HandlerPanic(m, "Failed to parse address as u64")
    ELSE IF length[1] = {} THEN Ret(m, <<>>, Text(<<"O", "K">>))
    ELSE IF Val(BitAnd(length[1], {0, 1})) # 0
    THEN HandlerPanic(m, "Program segment not a multiple of u32")
    ELSE IF packet_data = <<>> \/ Len(packet_data) % 4 # 0
    THEN HandlerPanic(m, "cast_slice")
    ELSE Then(mem_write(m.bar, m.w, "Rfpc0", "Ctm", "Bulk32", AsU32(address[1]),
                        Len(packet_data) \div 4, m.oc), LAMBDA r :
             Ret([m EXCEPT !.bar = r.bar, !.w = HwAfter(m.w, r.trace)], r.trace,
                 Text(<<"O", "K">>)))
load_segment_info(m, buffer_info, comma, packet_data) ==
    IF comma = None THEN HandlerPanic(m, "unwrap_on_none")
    ELSE load_segment_write(m, from_str_radix16(Slice(buffer_info, 0, comma[1]), 64),
                            from_str_radix16(Slice(buffer_info, comma[1] + 1, Len(buffer_info)), 64),
                            packet_data)
load_segment(m, packet) ==
    Then(position(packet, Ord(":")), LAMBDA colon_index :
        IF colon_index = None THEN HandlerPanic(m, "unwrap_on_none")
        ELSE Then(from_utf8_lossy(Slice(packet, 1, colon_index[1])), LAMBDA buffer_info :
                 load_segment_info(m, buffer_info, position(buffer_info, Ord(",")),
                                   Slice(packet, colon_index[1] + 1, Len(packet)))))

\* text.split(sep): the pieces of a text between the separators.
RECURSIVE split(_, _)
split(text, sep) ==
    Then(position(text, sep), LAMBDA at :
        IF at = None THEN <<text>>
        ELSE <<Slice(text, 0, at[1])>> \o split(Slice(text, at[1] + 1, Len(text)), sep))

\* HashMap::insert of key k with value v into a map kept as a set of pairs.
insert(map, k, v) == {e \in map : e[1] # k} \cup {<<k, v>>}

\* The loop of supported_features over the features of the client (lines
\* 412-418).
RECURSIVE record_features(_, _)
record_feature(s, feat, eq) ==
    IF eq # None
    THEN [s EXCEPT !.client_kv_support =
              insert(@, Slice(feat, 0, eq[1]), Slice(feat, eq[1] + 1, Len(feat)))]
    ELSE [s EXCEPT !.client_v_support = Append(@, feat)]
record_features(s, feats) ==
    IF feats = <<>> THEN s
    ELSE record_features(record_feature(s, Head(feats), position(Head(feats), Ord("="))),
                         Tail(feats))

\* list.join(";").
RECURSIVE join(_)
join(list) ==
    IF list = <<>> THEN <<>>
    ELSE IF Len(list) = 1 THEN list[1]
    ELSE list[1] \o <<Ord(";")>> \o join(Tail(list))

\* supported_features (lines 408-435).
supported_features(m, packet) ==
    Then(position(packet, Ord(":")), LAMBDA colon_index :
        IF colon_index = None THEN HandlerPanic(m, "unwrap_on_none")
        ELSE Then(from_utf8_lossy(Slice(packet, colon_index[1] + 1, Len(packet))), LAMBDA args :
                 Ret([m EXCEPT !.s = record_features(@, split(args, Ord(";")))], <<>>,
                     join(m.s.server_kv_support \o m.s.server_v_support))))

\* The call through the function pointer of an entry.
Call(m, func, packet) ==
    CASE func = "cmd_not_supported" -> cmd_not_supported(m)
      [] func = "toggle_ack" -> toggle_ack(m)
      [] func = "load_offsets" -> load_offsets(m)
      [] func = "read_gprs" -> read_gprs(m)
      [] func = "supported_features" -> supported_features(m, packet)
      [] func = "write_csr" -> write_csr(m, packet)
      [] func = "load_segment" -> load_segment(m, packet)

\* The match on an entry found in the table (lines 472-477 and 485-490):
\* reply is the Option<String> handle_packet returns.
Respond(m, response, packet) ==
    IF response = None THEN [m |-> m, t |-> <<>>, reply |-> None]
    ELSE IF response[1].kind = "Ascii"
    THEN [m |-> m, t |-> <<>>, reply |-> Some(response[1].text)]
    ELSE Then(Call(m, response[1].func, packet), LAMBDA r :
             [m |-> r.m, t |-> r.t, reply |-> IF panicked(r.t) THEN None ELSE Some(r.text)])

\* handle_packet (lines 463-497).  &rsp_command[0..1] panics on the empty
\* command and on a command whose first character is longer than a byte.
handle_packet(m, packet) ==
    Then(unwrap_or(position(packet, Ord(":")), Len(packet)), LAMBDA colon_index :
    Then(from_utf8_lossy(Slice(packet, 0, colon_index)), LAMBDA rsp_command :
        IF rsp_command \in DOMAIN cmd_resp_map
        THEN Respond(m, cmd_resp_map[rsp_command], packet)
        ELSE IF rsp_command = <<>> \/ rsp_command[1] >= 128
        THEN [m |-> m, t |-> <<Panic("str_index")>>, reply |-> None]
        ELSE IF <<rsp_command[1]>> \in DOMAIN cmd_resp_map
        THEN Respond(m, cmd_resp_map[<<rsp_command[1]>>], packet)
        ELSE [m |-> m, t |-> <<>>, reply |-> Some(cmd_not_supported(m).text)]))

\* --- the stream of the client ---
\* The stream of the accepted connection: inbuf, the bytes the client has
\* sent and the server has not read; peer, "open" while the client is
\* connected, "closed" once it has closed its end and "reset" once the
\* kernel knows of it from a write.  A read of an empty inbuf blocks while
\* the peer is open (the accepted socket is a blocking one on Linux) and
\* returns 0 bytes after that.

\* The bytes of a packet with the escapes undone (lines 555-565).
RECURSIVE unescape(_, _)
unescape(bytes, escaped) ==
    IF bytes = <<>> THEN <<>>
    ELSE IF escaped
    THEN <<IF (Head(bytes) \div 32) % 2 = 1 THEN Head(bytes) - 32 ELSE Head(bytes) + 32>>
         \o unescape(Tail(bytes), FALSE)
    ELSE IF Head(bytes) = 125 THEN unescape(Tail(bytes), TRUE)
    ELSE <<Head(bytes)>> \o unescape(Tail(bytes), FALSE)

\* The checksum of the bytes of a packet with the escapes undone.
checksum_unescaped(data) == calculate_rsp_checksum(unescape(data, FALSE))

\* The checksum parse_rsp_packet expects (line 577).
expected_checksum(buffer_orig) == calculate_rsp_checksum(buffer_orig)

\* The outcome of stream.write_all on the stream: an error once the peer is
\* known to be gone; the first bytes written to a closed peer are accepted,
\* and its reset may or may not have arrived by the next write.
WriteFails(peer) == peer = "reset"
PeerAfterWrite(peer) == IF peer = "open" THEN {"open"} ELSE {"closed", "reset"}

\* parse_rsp_packet (lines 533-602) on the bytes inbuf of the stream:
\* blocked, when a read blocks before the packet is complete; otherwise the
\* bytes left in the stream, the result ("ok", "mismatch" for the
\* InvalidData error, "eof" for the error of read_exact, "write" for the
\* error of writing '+'), the packet buffer, the bytes buffer_orig as
\* received, and whether '+' was written.  parse_data is the function from
\* the byte after '$' on (lines 553-570) and parse_checksum from the byte
\* after '#' on (lines 572-601).
Parsed(result, rest, orig, plus) ==
    [blocked |-> FALSE, rest |-> rest, result |-> result,
     buffer |-> unescape(orig, FALSE), buffer_orig |-> orig, plus |-> plus]
Blocked(inbuf) ==
    [blocked |-> TRUE, rest |-> inbuf, result |-> "none",
     buffer |-> <<>>, buffer_orig |-> <<>>, plus |-> FALSE]
parse_checksum(s, inbuf, peer, orig, tail) ==
    IF Len(tail) < 2
    THEN IF peer # "open" THEN Parsed("eof", <<>>, orig, FALSE) ELSE Blocked(inbuf)
    ELSE IF Bits(expected_checksum(orig))
            # unwrap_or(from_str_radix16(from_utf8_lossy(Slice(tail, 0, 2)), 8), {})
    THEN Parsed("mismatch", Slice(tail, 2, Len(tail)), orig, FALSE)
    ELSE IF s.disable_ack THEN Parsed("ok", Slice(tail, 2, Len(tail)), orig, FALSE)
    ELSE IF WriteFails(peer) THEN Parsed("write", Slice(tail, 2, Len(tail)), orig, FALSE)
    ELSE Parsed("ok", Slice(tail, 2, Len(tail)), orig, TRUE)
parse_data(s, inbuf, peer, after, hash) ==
    IF hash = None THEN parse_checksum(s, inbuf, peer, after, <<>>)
    ELSE parse_checksum(s, inbuf, peer, Slice(after, 0, hash[1]),
                        Slice(after, hash[1] + 1, Len(after)))
parse_rsp_packet(s, inbuf, peer) ==
    Then(position(inbuf, Ord("$")), LAMBDA dollar :
    Then(IF dollar = None THEN <<>> ELSE Slice(inbuf, dollar[1] + 1, Len(inbuf)), LAMBDA after :
        parse_data(s, inbuf, peer, after, position(after, Ord("#")))))

\* --- RspServer::run (lines 641-694) and the client ---
\* rsp.running is the flag shared with the signal handler; rsp.pc is where
\* run stands: "accept" at the head of its outer loop, "session" at the head
\* of its inner loop, "reading" in parse_rsp_packet, "returned" after its
\* return and "panicked" after a panic; rsp.pending, whether a connection
\* waits on the listener; rsp.sent, what the current iteration of the inner
\* loop has written to the stream, and rsp.last, what it has done.
Machine == [s |-> rsp.s, bar |-> exp_bar, w |-> hw.cpp, d |-> dm, oc |-> overflow_checks]

\* A client connects to the listener, after the client before it, if any,
\* has disconnected.
ClientConnects ==
    /\ rsp.pc \notin {"returned", "panicked"}
    /\ ~rsp.pending
    /\ rsp.peer # "open"
    /\ rsp' = [rsp EXCEPT !.pending = TRUE]
    /\ UNCHANGED <<exp_bar, expl_bar, hw, expl_csr, overflow_checks, call, trace>>
    /\ UNCHANGED host_vars
    /\ UNCHANGED <<dbg, dm, pa, vt>>

\* The client of the session sends the bytes of frame when the server has
\* read all it has sent before.
ClientSends(frame) ==
    /\ rsp.pc \in {"session", "reading"}
    /\ rsp.peer = "open"
    /\ rsp.inbuf = <<>>
    /\ rsp' = [rsp EXCEPT !.inbuf = frame]
    /\ UNCHANGED <<exp_bar, expl_bar, hw, expl_csr, overflow_checks, call, trace>>
    /\ UNCHANGED host_vars
    /\ UNCHANGED <<dbg, dm, pa, vt>>

\* The client of the session closes its end of the connection.
ClientDisconnects ==
    /\ rsp.pc \in {"session", "reading"}
    /\ rsp.peer = "open"
    /\ rsp' = [rsp EXCEPT !.peer = "closed"]
    /\ UNCHANGED <<exp_bar, expl_bar, hw, expl_csr, overflow_checks, call, trace>>
    /\ UNCHANGED host_vars
    /\ UNCHANGED <<dbg, dm, pa, vt>>

\* The ctrlc handler of nfp_gdb.rs (lines 39-45): running.store(false).
Shutdown ==
    /\ rsp.running
    /\ rsp.pc \notin {"returned", "panicked"}
    /\ rsp' = [rsp EXCEPT !.running = FALSE]
    /\ UNCHANGED <<exp_bar, expl_bar, hw, expl_csr, overflow_checks, call, trace>>
    /\ UNCHANGED host_vars
    /\ UNCHANGED <<dbg, dm, pa, vt>>

\* The outer loop finds the flag cleared (line 653) and run returns.
AcceptLoopExit ==
    /\ rsp.pc = "accept"
    /\ ~rsp.running
    /\ rsp' = [rsp EXCEPT !.pc = "returned"]
    /\ UNCHANGED <<exp_bar, expl_bar, hw, expl_csr, overflow_checks, call, trace>>
    /\ UNCHANGED host_vars
    /\ UNCHANGED <<dbg, dm, pa, vt>>

\* listener.accept() returns a connection (lines 654-656).
Accept ==
    /\ rsp.pc = "accept"
    /\ rsp.running
    /\ rsp.pending
    /\ rsp' = [rsp EXCEPT !.pc = "session", !.pending = FALSE, !.peer = "open",
                          !.inbuf = <<>>, !.sent = <<>>, !.last = None]
    /\ UNCHANGED <<exp_bar, expl_bar, hw, expl_csr, overflow_checks, call, trace>>
    /\ UNCHANGED host_vars
    /\ UNCHANGED <<dbg, dm, pa, vt>>

\* listener.accept() would block: the server sleeps 100 ms and polls again
\* (lines 683-686).
AcceptWouldBlock ==
    /\ rsp.pc = "accept"
    /\ rsp.running
    /\ ~rsp.pending
    /\ UNCHANGED vars

\* listener.accept() fails with another error: the loop is left (lines
\* 687-691).
AcceptError ==
    /\ rsp.pc = "accept"
    /\ rsp.running
    /\ rsp' = [rsp EXCEPT !.pc = "returned"]
    /\ UNCHANGED <<exp_bar, expl_bar, hw, expl_csr, overflow_checks, call, trace>>
    /\ UNCHANGED host_vars
    /\ UNCHANGED <<dbg, dm, pa, vt>>

\* The head of the inner loop (line 658): with the flag set the server
\* reads the next packet; with the flag cleared it leaves both loops, the
\* outer one finding the flag cleared as well.
SessionLoop ==
    /\ rsp.pc = "session"
    /\ rsp' = IF rsp.running
              THEN [rsp EXCEPT !.pc = "reading", !.sent = <<>>, !.last = None]
              ELSE [rsp EXCEPT !.pc = "returned", !.peer = "none", !.inbuf = <<>>]
    /\ UNCHANGED <<exp_bar, expl_bar, hw, expl_csr, overflow_checks, call, trace>>
    /\ UNCHANGED host_vars
    /\ UNCHANGED <<dbg, dm, pa, vt>>

\* One iteration of the inner loop (lines 659-679) on a packet a that
\* parse_rsp_packet has read, p1 and p2 being the state of the peer after
\* the first and the second write to the stream: the server and the chip
\* as the iteration leaves them.
Written(a, h, second, peer1, p2) ==
    [rsp |-> [rsp EXCEPT
                 !.pc = IF panicked(h.t) \/ (second # None /\ WriteFails(peer1))
                        THEN "panicked" ELSE "session",
                 !.s = h.m.s,
                 !.inbuf = a.rest,
                 !.peer = IF second # None /\ ~WriteFails(peer1) THEN p2 ELSE peer1,
                 !.sent = (IF a.plus THEN <<<<Ord("+")>>>> ELSE <<>>)
                          \o (IF second # None /\ ~WriteFails(peer1)
                              THEN <<second[1]>> ELSE <<>>),
                 !.last = [result |-> a.result, buffer |-> a.buffer,
                           buffer_orig |-> a.buffer_orig,
                           reply |-> h.reply, panicked |-> panicked(h.t)]],
     bar |-> h.m.bar, w |-> h.m.w, d |-> h.m.d, t |-> h.t]
Handled(a, h, p1, p2) ==
    Written(a, h,
            IF a.result = "ok"
            THEN IF panicked(h.t) \/ h.reply = None THEN None
                 ELSE Some(format_rsp_packet(h.reply[1]))
            ELSE IF rsp.s.disable_ack THEN None ELSE Some(<<Ord("-")>>),
            IF a.plus THEN p1 ELSE rsp.peer, p2)
Iteration(a, p1, p2) ==
    Handled(a, IF a.result = "ok" THEN handle_packet(Machine, a.buffer)
               ELSE [m |-> Machine, t |-> <<>>, reply |-> None], p1, p2)

\* The server and the chip after an iteration that ends as o.
ServeDone(o) ==
    /\ rsp' = o.rsp
    /\ exp_bar' = o.bar
    /\ hw' = [hw EXCEPT !.cpp = o.w]
    /\ dm' = o.d
    /\ trace' = o.t
    /\ UNCHANGED <<expl_bar, expl_csr, overflow_checks, call>>
    /\ UNCHANGED host_vars
    /\ UNCHANGED <<dbg, pa, vt>>

Serve ==
    /\ rsp.pc = "reading"
    /\ ~parse_rsp_packet(rsp.s, rsp.inbuf, rsp.peer).blocked
    /\ \E p1 \in PeerAfterWrite(rsp.peer) : \E p2 \in PeerAfterWrite(p1) :
           ServeDone(Iteration(parse_rsp_packet(rsp.s, rsp.inbuf, rsp.peer), p1, p2))

\* The steps of the thread that runs the server at the heads of its loops.
LoopStep == AcceptLoopExit \/ Accept \/ AcceptWouldBlock \/ SessionLoop

\* Serve is enabled exactly when CanServe holds, and every step of it is a
\* step that leaves "reading", as no other step is.
CanServe == rsp.pc = "reading" /\ ~parse_rsp_packet(rsp.s, rsp.inbuf, rsp.peer).blocked
Served == rsp.pc = "reading" /\ rsp'.pc # "reading"

\* --- the packets of the client ---
\* The frame a client makes of a payload, and one with a wrong checksum.
Hex2(v) == <<HexChar(v \div 16), HexChar(v % 16)>>
Frame(payload) ==
    <<Ord("$")>> \o payload \o <<Ord("#")>> \o Hex2(calculate_rsp_checksum(payload))
BadFrame(payload) ==
    <<Ord("$")>> \o payload \o <<Ord("#")>> \o Hex2((calculate_rsp_checksum(payload) + 1) % 256)

QStartNoAckMode == Text(<<"Q", "S", "t", "a", "r", "t", "N", "o", "A", "c", "k", "M", "o", "d", "e">>)
qSupported == Text(<<"q", "S", "u", "p", "p", "o", "r", "t", "e", "d", ":", "a", "=", "1", ";", "b">>)
\* "qC" with its second character escaped, as the bytes q } c.
EscapedqC == Text(<<"q", "}", "c">>)

\* The packets of the protocol: known and unknown commands, commands
\* without a reply, an empty payload, a payload that is no ASCII text,
\* wrong checksums, and an escaped payload with the checksum of its bytes as
\* sent and with the checksum of its bytes as unescaped.
ProtocolFrames ==
    { Frame(Text(<<"?">>)), BadFrame(Text(<<"?">>)), Frame(QStartNoAckMode),
      Frame(Text(<<"c">>)), Frame(<<3>>), Frame(Text(<<"Z", "0">>)),
      Frame(Text(<<"H", "g", "0">>)), Frame(<<>>), Frame(<<200>>),
      Frame(EscapedqC),
      <<Ord("$")>> \o EscapedqC \o <<Ord("#")>>
          \o Hex2(calculate_rsp_checksum(Text(<<"q", "C">>))) }

\* The client sends qSupported at most MaxFeatures times.
MaxFeatures == 1
ClientNegotiates ==
    /\ Len(rsp.s.client_v_support) < MaxFeatures
    /\ ClientSends(Frame(qSupported))

RspInit ==
    LET n == explicit_bar_new(0, 1, 2, {20}, FALSE)
    IN  /\ exp_bar = NewExpansionBar(CPP_EXPANSION_BAR_PHYSICAL_BAR, 0, {20})
        /\ expl_bar = n.expl
        /\ hw = [cpp |-> <<{}, {}>>,
                 trigger |-> n.expl.trigger_exp_bar.exp_bar_cached_cfg,
                 data |-> n.expl.data_exp_bar.exp_bar_cached_cfg]
        /\ expl_csr = <<{}, {}, {}, {}>>
        /\ overflow_checks = FALSE
        /\ call = NoCall
        /\ trace = <<>>
        /\ HostOfOneProcess
        /\ dbg = None
        /\ \E h \in {"running", "halted"} : dm = DmInitOf(h, {})
        /\ pa = None
        /\ vt = None
        /\ rsp = [running |-> TRUE, pc |-> "accept", pending |-> FALSE, peer |-> "none",
                  inbuf |-> <<>>, s |-> RspServer_new, sent |-> <<>>, last |-> None]

RspNext ==
    \/ ClientConnects
    \/ \E f \in ProtocolFrames : ClientSends(f)
    \/ ClientNegotiates
    \/ ClientDisconnects
    \/ Shutdown
    \/ AcceptLoopExit
    \/ Accept
    \/ AcceptWouldBlock
    \/ AcceptError
    \/ SessionLoop
    \/ Serve

\* The thread of the server is scheduled again and again: weak fairness of
\* its steps at the loop heads and of Serve, the latter written out with
\* CanServe and Served.  A client and the signal handler act when they like.
ServerFairness ==
    /\ WF_vars(LoopStep)
    /\ ([]<>~CanServe \/ []<><<Served>>_vars)
SpecRsp == RspInit /\ [][RspNext]_vars /\ ServerFairness

\* --- claims on the protocol ---
\* What the server writes for an acknowledgement and for its refusal.
Ack == <<Ord("+")>>
Nack == <<Ord("-")>>

\* C22: for every packet received with the checksum of its payload bytes as
\* sent (before unescaping) on a stream that can be written, the server
\* sends '+' before any reply while ack-disable is clear; once a
\* QStartNoAckMode packet has been processed ack-disable is set and stays
\* set, and no '+' is sent for any later packet; the QStartNoAckMode packet
\* itself is still acknowledged with '+'.
C22_AckUntilNoAckMode ==
    [][/\ rsp.s.disable_ack => rsp'.s.disable_ack
       /\ (Served /\ rsp.inbuf = Frame(rsp'.last.buffer_orig) /\ rsp.peer # "reset") =>
              /\ rsp'.last.result = "ok"
              /\ IF rsp.s.disable_ack
                 THEN \A i \in 1..Len(rsp'.sent) : rsp'.sent[i] # Ack
                 ELSE rsp'.sent # <<>> /\ rsp'.sent[1] = Ack
              /\ rsp'.last.buffer = QStartNoAckMode => rsp'.s.disable_ack]_vars

\* After QStartNoAckMode the server has answered a '?' packet with its
\* reply alone.
C22_RepliedWithoutAck ==
    /\ rsp.pc = "session"
    /\ rsp.s.disable_ack
    /\ rsp.last # None
    /\ rsp.last.result = "ok"
    /\ rsp.last.buffer = Text(<<"?">>)
    /\ rsp.sent = <<format_rsp_packet(Text(<<"S", "1", "2">>))>>

\* The server reads a complete packet whose checksum is not that of its
\* payload bytes, from a stream that can be written.
ServedMismatch ==
    /\ Served
    /\ Len(rsp.inbuf) = Len(rsp'.last.buffer_orig) + 4
    /\ rsp.inbuf # Frame(rsp'.last.buffer_orig)
    /\ rsp.peer # "reset"
\* The packet is not dispatched, no reply packet is sent for it, the state
\* of the session and of the chip stays as it is, and the server goes on to
\* read the next packet of the same connection.
Dropped ==
    /\ rsp'.last.reply = None
    /\ trace' = <<>>
    /\ \A i \in 1..Len(rsp'.sent) : rsp'.sent[i] \in {Ack, Nack}
    /\ rsp'.s = rsp.s
    /\ UNCHANGED <<exp_bar, hw, dm>>
    /\ rsp'.pc = "session"
    /\ rsp'.peer # "none"
    /\ rsp.peer = "open" => rsp'.peer = "open"

\* C23 as stated: on a packet whose checksum does not match, the server
\* sends '-', neither dispatches the packet nor sends a reply packet for it,
\* changes no session state, and continues by reading the next packet on
\* the same connection.
C23_NackOnMismatch ==
    [][ServedMismatch => (rsp'.sent = <<Nack>> /\ Dropped)]_vars

\* C23: on a packet whose checksum does not match, the server sends '-'
\* while ack-disable is clear and nothing once it is set; in both cases it
\* neither dispatches the packet nor sends a reply packet for it, changes no
\* session state, and continues by reading the next packet on the same
\* connection.
C23_NackOnMismatchUnlessNoAck ==
    [][ServedMismatch =>
           (rsp'.sent = (IF rsp.s.disable_ack THEN <<>> ELSE <<Nack>>) /\ Dropped)]_vars

\* In no-ack mode a packet with a wrong checksum has been dropped without
\* a '-'.
C23_DroppedSilently ==
    /\ rsp.pc = "session"
    /\ rsp.s.disable_ack
    /\ rsp.last # None
    /\ rsp.last.result = "mismatch"
    /\ rsp.last.buffer_orig = Text(<<"?">>)
    /\ rsp.sent = <<>>

\* C24: when the client of the session has disconnected (or the stream has
\* failed), the session is closed: the server stops reading that stream and
\* is back at polling accept (or has returned, when it was told to shut
\* down), which is where a later client is accepted.
C24_SessionClosedOnDisconnect ==
    (rsp.pc \in {"session", "reading"} /\ rsp.peer \in {"closed", "reset"})
        ~> (rsp.pc \in {"accept", "returned"})

\* C25: after the shared running flag has been set to false by the signal
\* handler, RspServer::run eventually returns (or has ended in a panic),
\* both when the server is waiting in the accept loop and when a client is
\* connected but sends no further bytes.
C25_ReturnsAfterShutdown ==
    (~rsp.running) ~> (rsp.pc \in {"returned", "panicked"})

\* What the entry of the table found for a command asks for: no reply, the
\* static string, or the result of a function (some string).
Answers(entry, reply) ==
    IF entry = None THEN reply = None
    ELSE IF entry[1].kind = "Ascii" THEN reply = Some(entry[1].text)
    ELSE reply # None
\* The payload text before the first ':'.
CommandOf(packet) == Slice(packet, 0, unwrap_or(position(packet, Ord(":")), Len(packet)))

\* C26: handle_packet looks up the payload text before the first ':' as a
\* full command and, when that is absent from the table, its first
\* character; it returns the static string or the function result of the
\* matching entry, returns no reply at all for c, D, m, k, C and the
\* interrupt byte 0x03, and returns the empty string for every command
\* matched by neither lookup.
C26_HandlePacket ==
    (rsp.last # None /\ rsp.last.result = "ok") =>
        LET command == CommandOf(rsp.last.buffer)
        IN  /\ ~rsp.last.panicked
            /\ IF command \in DOMAIN cmd_resp_map
               THEN Answers(cmd_resp_map[command], rsp.last.reply)
               ELSE IF command # <<>> /\ <<command[1]>> \in DOMAIN cmd_resp_map
               THEN Answers(cmd_resp_map[<<command[1]>>], rsp.last.reply)
               ELSE rsp.last.reply = Some(<<>>)

\* --- the commands on the target ---
\* The packets of a client that reads the registers, writes dpc and another
\* register, and loads segments: of no length, of one word, of a length
\* that is no multiple of 4, of fewer bytes than its length, and at an
\* address above 32 bits.
WriteDpc == Text(<<"P", "2", "0", "=", "0", "0", "0", "1", "0", "0", "0", "0", "0", "0", "0", "0", "0", "0", "0", "0">>)
TargetFrames ==
    { Frame(Text(<<"g">>)), Frame(WriteDpc), Frame(Text(<<"P", "0", "1", "=", "0", "0">>)),
      Frame(Text(<<"X", "0", ",", "0", ":">>)),
      Frame(Text(<<"X", "1", "0", ",", "4", ":", "a", "b", "c", "d">>)),
      Frame(Text(<<"X", "1", "0", ",", "3", ":", "a", "b", "c">>)),
      Frame(Text(<<"X", "1", "0", ",", "8", ":", "a", "b", "c", "d">>)),
      Frame(Text(<<"X", "1", "f", "0", "0", "0", "0", "0", "0", "2", "0", ",", "8", ":",
                   "a", "b", "c", "d", "e", "f", "g", "h">>)) }

RspTargetNext ==
    \/ ClientConnects
    \/ Accept
    \/ \E f \in TargetFrames : ClientSends(f)
    \/ SessionLoop
    \/ Serve

SpecRspTarget == RspInit /\ [][RspTargetNext]_vars

\* The registers of the Access Register commands among the events t, in
\* program order, and the index of the first of these commands.
IsCommand(e) == e.ev = "xpb_explicit_write32" /\ e.reg = RISCV_DBG_COMMAND
IsHaltRequest(e) ==
    /\ e.ev = "xpb_explicit_write32"
    /\ e.reg = RISCV_DBG_DMCONTROL
    /\ RISCV_DBG_DMCONTROL_HALTREQ \subseteq e.data
    /\ e.address = dm_xpb_base(GdbRfpc) + RISCV_DBG_DMCONTROL
CommandRegs(t) ==
    [i \in 1..Len(SelectSeq(t, IsCommand)) |->
        Val(BitAnd(SelectSeq(t, IsCommand)[i].data, Bits(65535)))]

\* The sixteen hexadecimal digits of the eight bytes of a word, the lowest
\* byte first.
LittleEndianHex(word) ==
    [j \in 1..16 |->
        HexChar(Val(bit_range(word,
                              IF j % 2 = 1 THEN 8 * ((j - 1) \div 2) + 7
                              ELSE 8 * ((j - 1) \div 2) + 3,
                              IF j % 2 = 1 THEN 8 * ((j - 1) \div 2) + 4
                              ELSE 8 * ((j - 1) \div 2))))]

\* The server has handled a 'g' packet.
HandledG == rsp.last # None /\ rsp.last.result = "ok" /\ rsp.last.buffer = Text(<<"g">>)

\* The reads of a 'g' packet and its reply: x0..x31 in increasing order and
\* then dpc, and 33 words of sixteen digits, the i-th the byte-swapped value
\* of the i-th register read.
ReadAllRegisters ==
    /\ CommandRegs(trace) = GdbRegs
    /\ rsp.last.reply # None
    /\ Len(rsp.last.reply[1]) = 33 * 16
    /\ \A i \in 1..33 :
           SubSeq(rsp.last.reply[1], 16 * (i - 1) + 1, 16 * i)
               = LittleEndianHex(reg_get(dm, GdbRegs[i]))

\* C27: on the RSP command 'g' the server issues a halt request for the
\* configured hart (RFPC0, cluster 0, group 0, core 0) before the first
\* register read, then reads x0..x31 in increasing order and then dpc, and
\* replies with exactly 33 sixteen-hex-digit words, the i-th being the
\* byte-swapped 64-bit value of the i-th register read.
C27_ReadGprs ==
    HandledG =>
        /\ \E i \in 1..Len(trace) :
               /\ IsHaltRequest(trace[i])
               /\ \A j \in 1..i : ~IsCommand(trace[j])
        /\ ReadAllRegisters

\* The server has handled an X packet, and the fields of the packet: the
\* address and the length before the colon and the bytes after it.
HandledX == rsp.last # None /\ rsp.last.result = "ok" /\ rsp.last.buffer[1] = Ord("X")
XColon == position(rsp.last.buffer, Ord(":"))[1]
XComma == position(rsp.last.buffer, Ord(","))[1]
XAddr == from_str_radix16(Slice(rsp.last.buffer, 1, XComma), 64)[1]
XLen == from_str_radix16(Slice(rsp.last.buffer, XComma + 1, XColon), 64)[1]
XBytes == Slice(rsp.last.buffer, XColon + 1, Len(rsp.last.buffer))
IsMemWrite(e) == e.ev = "mmap" /\ e.op = "write"

\* C28: on the RSP command X<addr>,<len>:<bytes>, with len = 0 the server
\* replies OK and performs no memory write; with len # 0, including a len
\* that is not a multiple of 4, it pads the payload with zero bytes up to a
\* multiple of 4, writes the resulting 32-bit words to RFPC0 CTM at addr
\* truncated to 32 bits, and replies OK.
C28_LoadSegment ==
    HandledX =>
        /\ ~rsp.last.panicked
        /\ rsp.last.reply = Some(Text(<<"O", "K">>))
        /\ IF XLen = {}
           THEN \A i \in 1..Len(trace) : ~IsMemWrite(trace[i])
           ELSE /\ Len(SelectSeq(trace, IsMemWrite)) = 1
                /\ \A i \in 1..Len(trace) : IsMemWrite(trace[i]) =>
                       /\ Add(trace[i].base, trace[i].offset) = AsU32(XAddr)
                       /\ trace[i].bytes = 4 * ((Len(XBytes) + 3) \div 4)
                       /\ trace[i].map = "Fixed"

(***************************************************************************)
(* The cached BAR-config pair.                                             *)
(***************************************************************************)
\* The translation a call asks expansion_bar_cfg for: the two config words of
\* its arguments under map type m on an aperture of the given size.
Translation(c, m, size) ==
    CASE c.op = "expansion_bar_cfg" ->
             cfg_words(c.map, CppIslandId(c.island), CppTargetId(c.target), c.action,
                       c.token, c.base_addr, CppLengthId(c.cpp_len))
      [] c.op \in {"cpp_read", "cpp_write"} ->
             cfg_words(m, CppIslandId(c.island), CppTargetId(c.target), c.action,
                       c.token, cpp_base_addr(size, c.address), CppLengthId(c.cpp_len))
      [] c.op \in MemOps ->
             LET cmd == IF c.op = "mem_read" THEN read_command(c.engine)
                        ELSE write_command(c.engine)
                 b   == cpp_base_addr(size, c.address)
             IN  IF c.mem_type \in {"Emem", "Ctm"}
                 THEN cfg_words("Fixed", CppIslandId(c.island), CppTargetId("Mem"),
                                cmd[1], cmd[2], b, CppLengthId(cpp_length(c.engine)))
                 ELSE cfg_words("Fixed", CppIslandId(c.island), CppTargetId("Cls"),
                                IF c.op = "mem_read" THEN 0 ELSE 1, 0, b,
                                CppLengthId("Len32"))

\* The config-space writes among the events of t.
CfgWritesIn(t) == {i \in 1..Len(t) : t[i].ev = "cfg_write"}

\* A call on the aperture runs to its end in this step.
CallEnds == call = NoCall /\ call' # NoCall

\* C29: across any sequence of calls on one aperture, whatever changed the map
\* type before, the cached pair equals the two words last written to the
\* aperture's BAR-config CSRs; a call whose request expansion_bar_cfg rejects
\* writes nothing, and a call whose request it accepts ends with the pair
\* computed for it in the cache and in the CSRs, having made one config-space
\* write of that pair when it differs from the pair cached before and none
\* when it is the same (so the first configuration after construction writes
\* and a repeated translation does not); every mmap access is made with the
\* CSRs holding the translation computed for it.
C29_CacheMirrorsCsrs ==
    [][CallEnds =>
        LET before == exp_bar.exp_bar_cached_cfg
            after  == exp_bar'.exp_bar_cached_cfg
            w      == CfgWritesIn(trace')
            words  == Translation(call', exp_bar'.exp_bar_map, exp_bar.exp_bar_size)
            failed == \E i \in 1..Len(trace') :
                          /\ trace'[i].ev = "panic"
                          /\ trace'[i].why \in {"too_long", "overflow", "truncated"}
        IN  /\ after = hw'.cpp
            /\ Cardinality(w) <= 1
            /\ \A i \in w : trace'[i].words = after /\ trace'[i].words # before
            /\ w = {} => after = before
            /\ ~failed => (after = words /\ (w # {} <=> words # before))
            /\ (~failed /\ before = <<{}, {}>>) => w # {}
            /\ failed => (w = {} /\ \A i \in 1..Len(trace') : trace'[i].ev # "mmap")
            /\ \A i \in 1..Len(trace') : trace'[i].ev = "mmap" =>
                   /\ trace'[i].cfg = words
                   /\ \A j \in w : j < i
    ]_vars

\* C29, its case: a CPP read whose translation was already cached made its
\* mmap access without a config-space write, after an earlier call had
\* programmed that translation.
C29_RepeatedTranslationSkipsWrite ==
    /\ call.op = "cpp_read"
    /\ CfgWritesIn(trace) = {}
    /\ \E i \in 1..Len(trace) : trace[i].ev = "mmap" /\ trace[i].cfg = hw.cpp
    /\ hw.cpp # <<{}, {}>>

(***************************************************************************)
(* The field layout of the two BAR-config words.                           *)
(***************************************************************************)
\* The fields of a word pair laid out as lines 253-295 lay them out under map
\* type m: the base-address bits that the target, token and action fields
\* carry under General, Target and Bulk are put back above the bits of word 1.
DecodeCfg(m, words) ==
    LET f(hi, lo) == Shr(words[1] \cap (lo..hi), lo)
        low       == 48 - base_addr_width(m)
    IN  [island    |-> Val(f(30, 24)),
         cpp_len   |-> Val(f(17, 16)),
         target    |-> Val(f(15, 12)),
         token     |-> Val(f(9, 8)),
         action    |-> Val(f(5, 0)),
         base_addr |-> Shl(words[2], low)
                         \cup (IF m # "Fixed" THEN Shl(f(5, 0), low + 32) ELSE {})
                         \cup (IF m \in {"Target", "General"} THEN Shl(f(9, 8), low + 38)
                               ELSE {})
                         \cup (IF m = "General" THEN Shl(f(15, 12), low + 40) ELSE {})]

\* The fields of a request that the claim says its words determine under map
\* type m.
DeterminedFields(m, q) ==
    [island    |-> CppIslandId(q.island),
     cpp_len   |-> CppLengthId(q.cpp_len),
     base_addr |-> q.base_addr,
     target    |-> IF m \in {"Fixed", "Bulk"} THEN CppTargetId(q.target) ELSE 0,
     token     |-> IF m \in {"Fixed", "Bulk"} THEN q.token ELSE 0,
     action    |-> IF m = "Fixed" THEN q.action ELSE 0]

\* The words of request q under map type m.
WordsOf(m, q) ==
    cfg_words(m, CppIslandId(q.island), CppTargetId(q.target), q.action, q.token,
              q.base_addr, CppLengthId(q.cpp_len))

\* The action and token arguments of the requests: nfp_cpp passes its
\* --action and --token options, any u8, unchanged (nfp_cpp.rs lines 28-32).
CfgActions == {4, 34, 68}
CfgTokens == {1, 5}
\* Base addresses of the requests: 0, 2^4, 2^9, 2^16, 2^47 + 2^20, 2^41 +
\* 2^37 + 2^16.
CfgWordBases == {{}, {4}, {9}, {16}, {47, 20}, {41, 37, 16}}

CfgRequests ==
    [island : Islands, target : {"Ct", "Mem"}, action : CfgActions, token : CfgTokens,
     base_addr : CfgWordBases, cpp_len : {"Len32", "Len64"}]

\* The requests the calls are made with: those of one island, target and
\* length class or of the other, on three of the base addresses.
CfgCalls ==
    {q \in CfgRequests :
        /\ q.base_addr \in {{}, {9}, {41, 37, 16}}
        /\ <<q.island, q.target, q.cpp_len>> \in {<<"Pcie0", "Ct", "Len32">>,
                                                  <<"Rfpc0", "Mem", "Len64">>}}

CfgWordsNext ==
    \/ \E m \in MapType \ {"Explicit"}, q \in CfgCalls :
           ExpansionBarCfg(m, q.island, q.target, q.action, q.token, q.base_addr,
                           q.cpp_len)
    \/ ExpansionBarCfg("Explicit", "Local", "Nbi", 0, 0, {}, "Len32")
    \/ Return

SpecCfgWords == BarCfgInit /\ [][CfgWordsNext]_vars

\* C30: for every map type among Fixed, Bulk, Target and General and every
\* request the address-fit check accepts, the two words programmed determine
\* the base address, the island id and the length-class id, and also target
\* and token under Fixed and Bulk and the action under Fixed: decoding the
\* words gives these fields back, and an accepted request of the same map type
\* that differs in one of them has a different word pair.
C30_WordsDetermineFields ==
    (call.op = "expansion_bar_cfg" /\ call.map # "Explicit" /\ ~Rejected) =>
        LET m == call.map
            d == DecodeCfg(m, hw.cpp)
            f == DeterminedFields(m, call)
        IN  /\ d.base_addr = f.base_addr
            /\ d.island = f.island
            /\ d.cpp_len = f.cpp_len
            /\ m \in {"Fixed", "Bulk"} => (d.target = f.target /\ d.token = f.token)
            /\ m = "Fixed" => d.action = f.action
            /\ \A q \in CfgRequests :
                   (addr_check(m, q.base_addr, overflow_checks) = "ok"
                        /\ DeterminedFields(m, q) # f) => WordsOf(m, q) # hw.cpp

\* The fields of word 0 of the aperture's BAR-config CSRs.
Word0(hi, lo) == Shr(hw.cpp[1] \cap (lo..hi), lo)

\* An expansion_bar_cfg call under map type m that was not rejected.
Configured(m) == call.op = "expansion_bar_cfg" /\ call.map = m /\ ~Rejected

\* Under Explicit only the enable bit and the map-type bits are set in word 0
\* and word 1 is 0.
ExplicitWords ==
    Configured("Explicit") => hw.cpp = <<{31} \cup Shl(Bits(MapTypeId("Explicit")), 20), {}>>

\* Under Bulk the action slot carries bits 47:42 of the base address and
\* word 1 bits 41:10.
BulkBase ==
    Configured("Bulk") =>
        /\ Word0(5, 0) = Shr(call.base_addr \cap (42..47), 42)
        /\ hw.cpp[2] = Shr(call.base_addr \cap (10..41), 10)

StepShape(e) ==
    IF e.ev = "trigger" THEN <<"trigger", e.bar, e.at, e.bytes>>
    ELSE <<e.op, e.bar, e.offset, e.bytes>>

\* C32: a run_explicit_cmd call that is not rejected writes the pull data, if
\* any, to the SRAM slot before the trigger read and makes exactly one read of
\* the trigger aperture, at expa_offset + offset: of 1 word, followed when
\* push_len is given by a read-back of push_len words from the SRAM slot, if
\* force_sram_push is set or push_len is absent or not one of 1, 4, 8; of
\* push_len words, with no SRAM read, otherwise.
C32_PullThenOneTrigger ==
    (call.op = "run_explicit_cmd" /\ ~Rejected) =>
        LET tr   == <<CPP_EXPANSION_BAR_PHYSICAL_BAR, expl_bar.trigger_exp_bar.exp_bar>>
            da   == <<CPP_EXPANSION_BAR_PHYSICAL_BAR, expl_bar.data_exp_bar.exp_bar>>
            slot == sram_data_offset(expl_bar)
            at   == Add(expa_bar_offset(expl_bar), call.offset)
            push == call.push_data_len
            sram == call.require_sram \/ push = None \/ push[1] \notin {1, 4, 8}
            pull == IF call.pull_data = None THEN <<>>
                    ELSE << <<"write", da, slot, 4 * call.pull_data[1]>> >>
            rest == IF sram
                    THEN << <<"trigger", tr, at, 4>> >>
                         \o (IF push = None THEN <<>>
                             ELSE << <<"read", da, slot, 4 * push[1]>> >>)
                    ELSE << <<"trigger", tr, at, 4 * push[1]>> >>
        IN  [i \in 1..Len(trace) |-> StepShape(trace[i])] = pull \o rest

\* C32, its case: a call with pull data and a push length of 4 words read the
\* 4 words directly from the trigger aperture after staging the pull data.
C32_DirectReadAfterPull ==
    /\ call.op = "run_explicit_cmd"
    /\ call.pull_data # None
    /\ call.push_data_len = Some(4)
    /\ Len(trace) = 2
    /\ trace[1].ev = "mmap"
    /\ trace[2].ev = "trigger"
    /\ trace[2].bytes = 16

(***************************************************************************)
(* Base address 0.                                                         *)
(***************************************************************************)
\* The call is a configuration of base address 0 or an access at address 0.
AtZero(c) == IF c.op = "expansion_bar_cfg" THEN c.base_addr = {} ELSE c.address = {}

\* C33: expansion_bar_cfg accepts base address 0 under each of Fixed, Bulk,
\* Target and General: the truncation check neither rejects 0 nor fails in
\* the u32 subtraction bit_length - 1, so a direct configuration of base 0
\* ends without a panic and a CPP or memory read or write at address 0 is
\* configured and makes its mmap access.
C33_BaseZeroAccepted ==
    (call.op \in {"expansion_bar_cfg", "cpp_read", "cpp_write", "mem_read", "mem_write"}
        /\ exp_bar.exp_bar_map # "Explicit"
        /\ AtZero(call)) =>
        /\ \A i \in 1..Len(trace) : trace[i].ev # "panic"
        /\ exp_bar.exp_bar_cached_cfg[1] \cap {31} # {}
        /\ call.op # "expansion_bar_cfg" => \E i \in 1..Len(trace) : trace[i].ev = "mmap"

\* C34: a run_explicit_cmd call rejected because the pull data or the
\* requested push length exceeds 32 words has made no trigger read.
C34_RejectedBeforeTrigger ==
    (call.op = "run_explicit_cmd"
        /\ \E i \in 1..Len(trace) :
               trace[i].ev = "panic" /\ trace[i].why = "exceeds_sram") =>
        \A i \in 1..Len(trace) : trace[i].ev # "trigger"

(***************************************************************************)
(* The result of rfpc_dbg_abstractcmd and the callers that rely on it.     *)
(***************************************************************************)
\* C35: rfpc_dbg_abstractcmd returns 0 only if an abstractcs value read
\* during the call showed BUSY = 0 and CMDERR = 0: a command still busy when
\* the deadline passes is not reported as success (so rfpc_dbg_read_reg, which
\* reads data0 and data1 whenever the code is 0, never returns the data of an
\* uncompleted command).
C35_ZeroOnlyWhenCompleted ==
    (call.op = "rfpc_dbg_abstractcmd" /\ dbg.pc = "done" /\ dbg.code = 0) =>
        \E i \in 1..Len(trace) :
            IF trace[i].ev = "xpb_explicit_read32"
            THEN /\ trace[i].reg = RISCV_DBG_ABSTRACTCS
                 /\ trace[i].value \cap RISCV_DBG_ABSTRACTCS_BUSY = {}
                 /\ trace[i].value \cap RISCV_DBG_ABSTRACTCS_CMDERR = {}
            ELSE FALSE

(***************************************************************************)
(* read_rfpc_reg and write_rfpc_reg (rfpc_debugger.rs, lines 112-128),     *)
(* each run to its end.  Whether the hart follows a halt or resume request *)
(* before the 10-second deadline of the poll loop is the hart's choice.    *)
(***************************************************************************)
\* The hart follows the request pending in dmcontrol, if there is one.
hart_follows(d) ==
    IF d.req = "none" THEN d
    ELSE [d EXCEPT !.hart = IF d.req = "halt" THEN "halted" ELSE "running",
                   !.req = "none"]

\* rfpc_dbg_halt (lines 130-166) and rfpc_dbg_resume (lines 168-203): the
\* write of dmcontrol and the poll of dmstatus, of which the last read is
\* kept; the loop ends on the bit or on the deadline and returns either way.
rfpc_dbg_request(x, rfpc, req, follows) ==
    Then(reg_write(x, rfpc, RISCV_DBG_DMCONTROL, dmcontrol_word(rfpc, req)), LAMBDA x1 :
    Then(IF x1.ok /\ follows THEN [x1 EXCEPT !.d = hart_follows(@)] ELSE x1, LAMBDA x2 :
        reg_read(x2, rfpc, RISCV_DBG_DMSTATUS)))
rfpc_dbg_halt(x, rfpc, follows) ==
    rfpc_dbg_request(x, rfpc, RISCV_DBG_DMCONTROL_HALTREQ, follows)
rfpc_dbg_resume(x, rfpc, follows) ==
    rfpc_dbg_request(x, rfpc, RISCV_DBG_DMCONTROL_RESUMEREQ, follows)

\* read_rfpc_reg (lines 112-120); x.val is the register value.
read_rfpc_reg(x, rfpc, reg_addr, halts, resumes) ==
    Then(rfpc_dbg_halt(x, rfpc, halts), LAMBDA x1 :
    Then(rfpc_dbg_read_reg(x1, rfpc, reg_addr), LAMBDA x2 :
    Then(rfpc_dbg_resume(x2, rfpc, resumes), LAMBDA x3 :
        IF x3.ok THEN [x3 EXCEPT !.val = x2.val] ELSE x3)))

\* write_rfpc_reg (lines 122-128).
write_rfpc_reg(x, rfpc, reg_addr, value, halts, resumes) ==
    Then(rfpc_dbg_halt(x, rfpc, halts), LAMBDA x1 :
    Then(rfpc_dbg_write_reg(x1, rfpc, reg_addr, value), LAMBDA x2 :
        rfpc_dbg_resume(x2, rfpc, resumes)))

ReadRfpcReg(rfpc, reg_addr, halts, resumes) ==
    DbgDone(read_rfpc_reg(Ctx(dm), rfpc, reg_addr, halts, resumes),
            [op |-> "read_rfpc_reg", rfpc |-> rfpc, reg_addr |-> reg_addr,
             ok |-> TRUE, result |-> <<>>, before |-> dm], 0)

WriteRfpcReg(rfpc, reg_addr, value, halts, resumes) ==
    DbgDone(write_rfpc_reg(Ctx(dm), rfpc, reg_addr, value, halts, resumes),
            [op |-> "write_rfpc_reg", rfpc |-> rfpc, reg_addr |-> reg_addr,
             value |-> value, ok |-> TRUE, result |-> <<>>, before |-> dm], 0)

\* The registers nfp_rfpc_reg is run on: a0, x5 and dpc; the values written.
RegAddrs == {REGNO_A0, 4101, 1969}
RegValues == {{}, {2, 35}}

RegNext ==
    \/ \E r \in Rfpcs, a \in RegAddrs, h \in BOOLEAN, u \in BOOLEAN :
           ReadRfpcReg(r, a, h, u)
    \/ \E r \in Rfpcs, a \in RegAddrs, v \in RegValues, h \in BOOLEAN, u \in BOOLEAN :
           WriteRfpcReg(r, a, v, h, u)
    \/ HartResponds
    \/ Return

SpecReg == MemInit /\ [][RegNext]_vars

\* The event is the write of a dmcontrol word with the bits of req set.
IsRequest(e, req) ==
    IF e.ev = "xpb_explicit_write32"
    THEN e.reg = RISCV_DBG_DMCONTROL /\ req \subseteq e.data
    ELSE FALSE

\* C36: every read_rfpc_reg or write_rfpc_reg call that has written a halt
\* request to dmcontrol also writes a resume request for the same hart before
\* it ends, also when the abstract command reports a nonzero CMDERR; a hart
\* that was running before the call is not left halted by it: after the call
\* it is running or has a resume request pending.
C36_ResumeAfterHalt ==
    call.op \in {"read_rfpc_reg", "write_rfpc_reg"} =>
        /\ \A i \in 1..Len(trace) :
               IsRequest(trace[i], RISCV_DBG_DMCONTROL_HALTREQ) =>
                   \E j \in (i + 1)..Len(trace) :
                       /\ IsRequest(trace[j], RISCV_DBG_DMCONTROL_RESUMEREQ)
                       /\ trace[j].address = trace[i].address
                       /\ trace[j].data \cap (16..25) = trace[i].data \cap (16..25)
        /\ call.before.hart = "running" => (dm.hart = "running" \/ dm.req = "resume")

(***************************************************************************)
(* The holder of the virtual terminal for every metadata word.             *)
(***************************************************************************)
\* C37: holder never fails, whatever the lock and metadata words are: for
\* every metadata word read while the lock is held it returns none or an
\* identity whose island is one of the 16 islands, with cluster <= 2, group
\* <= 3 and core <= 7.
C37_HolderNeverFails ==
    call.op = "holder" =>
        /\ \A i \in 1..Len(trace) : trace[i].ev # "panic"
        /\ \/ call.result = None
           \/ /\ call.result[1].island \in {CppIslandNames[k] : k \in 1..16}
              /\ call.result[1].cluster \in 0..2
              /\ call.result[1].group \in 0..3
              /\ call.result[1].core \in 0..7

(***************************************************************************)
(* The virtual terminal between the software on the chip and the follower  *)
(* loop of nfp_virt_term (nfp_virt_term.rs lines 70-98), one memory access *)
(* at a time.  vt holds the four fields of the terminal in island memory,  *)
(* the position vt.pc of the follower (loop_*: holder of line 71; avail_*: *)
(* data_available of line 93; rb_*: read_bytes under read_string of line   *)
(* 94), the length vt.len and the words vt.buf it has read, the state      *)
(* vt.prod of the producer, and the messages published (vt.sent) and       *)
(* returned (vt.got), as sequences of bytes.                               *)
(***************************************************************************)
MaxMessages == 2
MaxMsgLen == 5
\* The lengths in bytes of the messages the producer sends.
VtMsgLens == {1, MaxMsgLen}

\* The bytes of the m-th message of n bytes, and its w-th 32-bit word as the
\* producer stores it: little-endian, padded with zero bytes.
MsgBytes(m, n) == [j \in 1..n |-> (16 * m) + j]
MsgWord(bytes, w) ==
    LET b(j) == IF j <= Len(bytes) THEN bytes[j] ELSE 0
    IN  Bits(b((4 * w) - 3) + (256 * b((4 * w) - 2)) + (65536 * b((4 * w) - 1))
             + (16777216 * b(4 * w)))
MsgWords(n) == (n + 3) \div 4

\* A memory access of the follower with result r (aperture and events).
FollowAccess(r) ==
    /\ call = NoCall
    /\ exp_bar' = r.bar
    /\ hw' = [hw EXCEPT !.cpp = HwAfter(hw.cpp, r.trace)]
    /\ trace' = r.trace
    /\ UNCHANGED <<expl_bar, expl_csr, overflow_checks, call>>
    /\ UNCHANGED host_vars
    /\ UNCHANGED <<dbg, dm, pa, rsp>>

\* The read of one word of the terminal at the given offset.
vt_read_word(offset, engine, words) ==
    mem_read(exp_bar, hw.cpp, VtIsland, vt_mem_type(VtIsland), engine,
             Add(VtAddress, Bits(offset)), words, overflow_checks)

\* The position after the last access of a holder call made at position
\* group g: the next access of the caller when there is a holder.
AfterHolder(g) ==
    CASE g = "loop" -> "avail_lock" [] g = "avail" -> "avail_len" [] g = "rb" -> "rb_len"

\* is_locked (lines 77-87) inside holder: without the lock held the holder is
\* none; the loop sleeps and starts over, data_available returns 0 and
\* read_bytes returns no bytes.
FollowLock(g) ==
    /\ vt.pc = g \o "_lock"
    /\ FollowAccess(vt_read_word(LOCK_OFFSET, "Atomic32", 1))
    /\ vt' = [vt EXCEPT !.pc = IF vt.lock = {} THEN g \o "_meta" ELSE "loop_lock"]

\* The read of the metadata word and the validity test (lines 95-112).
FollowMeta(g) ==
    /\ vt.pc = g \o "_meta"
    /\ FollowAccess(vt_read_word(METADATA_OFFSET, "Atomic32", 1))
    /\ LET r == decode_holder([bar |-> exp_bar, trace |-> <<>>],
                              [bar |-> exp_bar, trace |-> <<>>], {}, vt.metadata)
       IN  vt' = [vt EXCEPT !.pc = IF panicked(r.trace) THEN "panicked"
                                   ELSE IF r.holder = None THEN "loop_lock"
                                   ELSE AfterHolder(g)]

\* The read of the length word in data_available (lines 133-140): called
\* from the loop (line 93) and again from read_bytes (line 150).
FollowLength(g) ==
    /\ vt.pc = g \o "_len"
    /\ FollowAccess(vt_read_word(LENGTH_OFFSET, "Atomic32", 1))
    /\ vt' = IF vt.length = {} THEN [vt EXCEPT !.pc = "loop_lock"]
             ELSE IF g = "avail" THEN [vt EXCEPT !.pc = "rb_lock"]
             ELSE [vt EXCEPT !.pc = "rb_data", !.len = Val(vt.length), !.buf = <<>>]

\* The read of the data field (lines 156-163): data_len words, copied from
\* the mapped aperture one after the other.
FollowCopies ==
    vt' = [vt EXCEPT !.buf = Append(@, vt.data[Len(@) + 1]),
                     !.pc = IF Len(vt.buf) + 1 = vt.len THEN "rb_ack" ELSE @]
FollowData ==
    /\ vt.pc = "rb_data"
    /\ vt.buf = <<>>
    /\ FollowAccess(vt_read_word(DATA_OFFSET, "Bulk32", vt.len))
    /\ FollowCopies
FollowDataNext ==
    /\ vt.pc = "rb_data"
    /\ vt.buf # <<>>
    /\ call = NoCall
    /\ UNCHANGED <<exp_bar, expl_bar, hw, expl_csr, overflow_checks, call, trace>>
    /\ UNCHANGED host_vars
    /\ UNCHANGED <<dbg, dm, pa, rsp>>
    /\ FollowCopies

\* A read_bytes that returns the bytes and leaves the length word as it is.
FollowAckKeepsLength ==
    /\ vt.pc = "rb_ack"
    /\ FollowAccess(vt_read_word(LENGTH_OFFSET, "Atomic32", 1))
    /\ vt' = [vt EXCEPT !.pc = "loop_lock", !.buf = <<>>,
                        !.got = Append(@, cast_slice_u8(vt.buf))]

\* The write of 0 to the length word (lines 167-174) and the return of the
\* bytes of the words read (lines 176-179).
FollowAck ==
    /\ vt.pc = "rb_ack"
    /\ FollowAccess(mem_write(exp_bar, hw.cpp, VtIsland, vt_mem_type(VtIsland),
                              "Atomic32", Add(VtAddress, Bits(LENGTH_OFFSET)), 1,
                              overflow_checks))
    /\ vt' = [vt EXCEPT !.pc = "loop_lock", !.length = {}, !.buf = <<>>,
                        !.got = Append(@, cast_slice_u8(vt.buf))]

FollowStep ==
    \/ \E g \in {"loop", "avail", "rb"} : FollowLock(g)
    \/ \E g \in {"loop", "avail", "rb"} : FollowMeta(g)
    \/ \E g \in {"avail", "rb"} : FollowLength(g)
    \/ FollowData
    \/ FollowDataNext
    \/ FollowAck

\* The follower is at an access that changes its position, and it has made
\* a step.
FollowCanMove == vt.pc # "panicked" /\ (vt.pc = "loop_lock" => vt.lock = {})
FollowMoved == vt'.pc # vt.pc \/ vt'.buf # vt.buf

\* A memory access of the software on the chip: the process is not involved.
ChipAccess ==
    /\ UNCHANGED <<exp_bar, expl_bar, hw, expl_csr, overflow_checks, call, trace>>
    /\ UNCHANGED host_vars
    /\ UNCHANGED <<dbg, dm, pa, rsp>>

\* The producer takes the lock (lock word 0) and then writes its identity
\* to the metadata word.
ChipLocks ==
    /\ vt.prod = "free"
    /\ vt' = [vt EXCEPT !.lock = {}, !.prod = "locking"]
    /\ ChipAccess
ChipIdentifies ==
    /\ vt.prod = "locking"
    /\ vt' = [vt EXCEPT !.metadata = VtmMetadata(9, 3, 7, FALSE), !.prod = "held"]
    /\ ChipAccess

\* The producer starts a message of n bytes, only while the length word is
\* 0; it writes the words of the data field one after the other and then
\* the length.
ChipStarts(n) ==
    /\ vt.prod = "held"
    /\ vt.length = {}
    /\ Len(vt.sent) < MaxMessages
    /\ vt' = [vt EXCEPT !.prod = "writing", !.msg = MsgBytes(Len(vt.sent) + 1, n),
                        !.pw = 0]
    /\ ChipAccess
ChipWritesData ==
    /\ vt.prod = "writing"
    /\ vt.pw < MsgWords(Len(vt.msg))
    /\ vt' = [vt EXCEPT !.data[vt.pw + 1] = MsgWord(vt.msg, vt.pw + 1), !.pw = @ + 1]
    /\ ChipAccess
ChipPublishes ==
    /\ vt.prod = "writing"
    /\ vt.pw = MsgWords(Len(vt.msg))
    /\ vt' = [vt EXCEPT !.length = Bits(Len(vt.msg)), !.prod = "waiting",
                        !.sent = Append(@, vt.msg)]
    /\ ChipAccess

\* The producer sees its message acknowledged; it keeps the lock until then
\* and may release it afterwards (a nonzero lock word).
ChipSeesAck ==
    /\ vt.prod = "waiting"
    /\ vt.length = {}
    /\ vt' = [vt EXCEPT !.prod = "held"]
    /\ ChipAccess
ChipReleases ==
    /\ vt.prod = "held"
    /\ vt' = [vt EXCEPT !.lock = {0}, !.prod = "free"]
    /\ ChipAccess

\* nfp_virt_term has started on a terminal that has not been used, with the
\* memory behind the data field in some state.
FollowInit ==
    /\ exp_bar = NewExpansionBar(CPP_EXPANSION_BAR_PHYSICAL_BAR, 0, {20})
    /\ expl_bar = None
    /\ hw = [cpp |-> <<{}, {}>>, trigger |-> <<{}, {}>>, data |-> <<{}, {}>>]
    /\ expl_csr = <<{}, {}, {}, {}>>
    /\ overflow_checks = FALSE
    /\ call = NoCall
    /\ trace = <<>>
    /\ HostOfOneProcess
    /\ dbg = None
    /\ dm = None
    /\ pa = None
    /\ rsp = None
    /\ \E l \in VtLockWords :
           vt = [lock |-> l, metadata |-> {}, length |-> {},
                 data |-> [i \in 1..MaxMsgLen |-> Bits(127)],
                 pc |-> "loop_lock", len |-> 0, buf |-> <<>>,
                 prod |-> "free", msg |-> <<>>, pw |-> 0, sent |-> <<>>, got |-> <<>>]

FollowNext ==
    \/ FollowStep
    \/ ChipLocks
    \/ ChipIdentifies
    \/ \E n \in VtMsgLens : ChipStarts(n)
    \/ ChipWritesData
    \/ ChipPublishes
    \/ ChipSeesAck
    \/ ChipReleases

\* The loop of nfp_virt_term runs on: the thread is scheduled again and again
\* (weak fairness of its accesses, written out with FollowCanMove and
\* FollowMoved for those that go through the aperture).  The producer acts
\* when it likes.
FollowFairness ==
    /\ WF_vars(FollowDataNext)
    /\ ([]<>~FollowCanMove \/ []<><<FollowMoved>>_vars)
SpecVtFollow == FollowInit /\ [][FollowNext]_vars /\ FollowFairness

\* The first n elements of a sequence.
Prefix(q, n) == [j \in 1..n |-> q[j]]

\* C38: under every interleaving of the memory accesses of the producer and
\* of the follower loop, the messages read_bytes has returned are the
\* messages published, each once, in publication order and with all its
\* bytes first; a message is published only after the one before it has
\* been returned, and each published message is returned in the end.
C38_Returned ==
    /\ Len(vt.got) <= Len(vt.sent)
    /\ Len(vt.sent) <= Len(vt.got) + 1
    /\ \A i \in 1..Len(vt.got) :
           /\ Len(vt.got[i]) >= Len(vt.sent[i])
           /\ Prefix(vt.got[i], Len(vt.sent[i])) = vt.sent[i]
C38_Unread == Len(vt.sent) > Len(vt.got)
MalformedFrames ==
    { Frame(<<>>), Frame(Text(<<"P", "2", "0">>)),
      Frame(Text(<<"P", "1", "0", "0", "=", "0", "0">>)),
      Frame(Text(<<"X", "1", "0", ",", "4">>)),
      Frame(Text(<<"X", "1", "0", ":", "a", "b", "c", "d">>)),
      Frame(Text(<<"X", "z", "z", ",", "4", ":", "a", "b", "c", "d">>)),
      Frame(Text(<<"q", "S", "u", "p", "p", "o", "r", "t", "e", "d">>)),
      Frame(Text(<<"?">>)), Frame(Text(<<"c">>)), Frame(QStartNoAckMode) }

RspMalformedNext ==
    \/ ClientConnects
    \/ Accept
    \/ \E f \in MalformedFrames : ClientSends(f)
    \/ SessionLoop
    \/ Serve

SpecRspMalformed == RspInit /\ [][RspMalformedNext]_vars

\* C39: a packet with a valid checksum never makes the server fail:
\* handle_packet and the handler it calls return a reply or no reply, and
\* the server goes on to read the next packet.
C39_ValidPacketNeverFails ==
    (rsp.last # None /\ rsp.last.result = "ok") =>
        /\ ~rsp.last.panicked
        /\ rsp.pc # "panicked"

(***************************************************************************)
(* read_fifo on every kind of PA_FIFO_CONTROL word with empty = 0.         *)
(***************************************************************************)
\* (num_words, fifo_control) of read_fifo calls on a FIFO that is not empty:
\* requests of 0 words (all there are) with 2 and with 4097 words between
\* the pointers and with overflow set; requests of 3 and of 4096 words with
\* 5000 words between the pointers; requests with the write pointer behind
\* the read pointer.
DrainCalls ==
    { <<0, fifo_control_word(0, 2, FALSE, FALSE)>>,
      <<0, fifo_control_word(0, fifo_size + 1, FALSE, FALSE)>>,
      <<0, fifo_control_word(7, 8, FALSE, TRUE)>>,
      <<3, fifo_control_word(0, 5000, FALSE, FALSE)>>,
      <<fifo_size, fifo_control_word(0, 5000, FALSE, FALSE)>>,
      <<1, fifo_control_word(3, 1, FALSE, FALSE)>>,
      <<fifo_size, fifo_control_word(32767, 0, FALSE, FALSE)>> }

DrainNext ==
    \/ \E g \in GlobalConfigs : SetPaGlobalConfig(g[1], g[2], g[3])
    \/ StartPa
    \/ \E f \in DrainCalls : ReadFifo(f[1], f[2])
    \/ Return

SpecDrain == PaInit /\ [][DrainNext]_vars

\* C40: a read_fifo call on a FIFO that is not empty, for a request of at
\* most 4096 words, reads PA_FIFO_DATA at most 4096 times and does not fail
\* in its arithmetic.
C40_AtMostFifoSizeReads ==
    (call.op = "read_fifo" /\ 30 \notin call.fifo_control /\ call.num_words <= fifo_size) =>
        /\ Len(FifoDataReads(trace)) <= fifo_size
        /\ \A i \in 1..Len(trace) : trace[i].ev # "panic"

====
